---- MODULE Spec2Model ----
(***************************************************************************)
(* A state-machine model of the PerpSpot price/arbitrage core:             *)
(*   - CacheService            (services/cache_service.py)                 *)
(*   - WebSocketListener       (services/ws_listener.py)                   *)
(*   - HyperliquidService      (services/hyperliquid_service.py)           *)
(*   - ArbitrageService        (services/arbitrage_service.py)             *)
(* Each component has its own specification (SpecCache, SpecWs, SpecArb)   *)
(* over the shared variables; Spec is their union.                         *)
(***************************************************************************)
EXTENDS Integers, Sequences, FiniteSets, TLC

\* ------------------------------------------------------------------ bounds
\* Wall-clock seconds explored by the cache model.
MaxTime == 3
\* Largest explicit ttl passed to CacheService.set.
MaxTtl == 2

\* ------------------------------------------------------- program constants
\* CacheService.__init__: default_ttl = 7
default_ttl == 7

VARIABLES
    \* ---- CacheService
    redis_connected,   \* self.redis_connected, fixed at construction
    local_cache,       \* self.local_cache (TTLCache): key -> value
    redis_store,       \* the remote tier: key -> NoEntry or [json, expires]
    now,               \* wall clock, in seconds
    cache_ret,         \* the last CacheService call and what it returned
    last_set,          \* per key, the last set() call that returned
    \* ---- HyperliquidService (streaming side)
    ws_listener,       \* self.ws_listener: "none" or "created"
    ws_enabled,        \* self.ws_enabled
    ws_data,           \* self.ws_data: coin -> reference to a price dict
    hl_ret,            \* the last get_websocket_prices() call: where it read
                       \* (seq alternates with every call)
    \* ---- WebSocketListener
    bg_thread,         \* the thread of start_background_listener
    running,           \* self.running
    reconnect_attempts,\* self.reconnect_attempts
    use_testnet_fallback, \* self.use_testnet_fallback (ws_url follows it)
    delay,             \* connect()'s local delay
    ws_pc,             \* where connect() stands
    live_data,         \* self.live_data
    sleep_log,         \* delays slept since connect() began or last connected
    att_log,           \* reconnect_attempts at the failure before each of them
    ep_fails,          \* failed attempts in a row against the current endpoint
    ep_attempts,       \* attempts begun against the current endpoint (0, 1, 2+)
    \* ---- ArbitrageService
    price_data,        \* self.price_data: token -> the token's dict
    arbitrage_opportunities, \* self.arbitrage_opportunities: token -> opportunity
    historical_data,   \* self.historical_data[-1], the newest data point
    data_lock,         \* self.data_lock: "free" or its holder
    refresh_pc,        \* where update_all_prices stands
    calc_i,            \* _calculate_arbitrage_opportunities' loop index
    hl_prices,         \* update_all_prices' local hl_prices, token -> perp dict
    \* ---- callers of ArbitrageService
    gpd_pc,            \* a get_price_data call: "idle" or "blocked" on data_lock
    pd_snap,           \* the value the last get_price_data call returned
    api_opps,          \* the list the /arbitrage route got, while it works on it
    sim_pc,            \* a simulate_arbitrage_trade call in progress
    sim_ret,           \* what its reads of arbitrage_opportunities saw
    execution_templates, \* BridgeArbitrageService.execution_templates
    spread_calc,       \* the last spread computation: where, its division, its outcome
    spot_call,         \* the last run of update_all_prices' spot side, on its own
    spot_quotes,       \* the spot legs that run's merge left in the price map
    template_ret,      \* the last save/delete_execution_template call and its answer
    bridge_arbitrage_service, \* bridge_service.arbitrage_service: None or the aggregator
    mc_ret,            \* the last simulate_bridge_execution_monte_carlo call and its result
    historical_simulations, \* BridgeArbitrageService.historical_simulations
    sims_completed,    \* how many simulate_bridge_execution calls have completed
    slippage_ret,      \* the last estimate_slippage_by_notional call and its result
    depth_ret,         \* the last estimate_execution_price_from_depth call and its result
    combined_ret,      \* the last estimate_combined_slippage call and its result
    polling_running,   \* PollingService.running
    polling_thread,    \* PollingService.thread: 0 (None) or the number of a thread
    polling_threads,   \* every thread start() created: where it is in _polling_loop
    retry_state,       \* BackoffRetryManager.retry_state[service], times relative to now
    fetch_cached,      \* how long RedisPriceCache's entry for the endpoint still lives (0: no entry)
    fetch_ret          \* the last fetch_with_cache call and how it ended

cacheVars == <<redis_connected, local_cache, redis_store, now, cache_ret, last_set>>
hlVars == <<ws_listener, ws_enabled, ws_data, hl_ret>>
wsCtlVars == <<bg_thread, running, reconnect_attempts, use_testnet_fallback, delay,
               ws_pc, sleep_log, att_log, ep_fails, ep_attempts>>
wsVars == <<wsCtlVars, live_data>>

arbVars == <<price_data, arbitrage_opportunities, historical_data, data_lock,
             refresh_pc, calc_i, hl_prices>>
callerVars == <<gpd_pc, pd_snap, api_opps, sim_pc, sim_ret>>

tplVars == <<execution_templates, template_ret>>
spotVars == <<spot_call, spot_quotes>>
mcVars == <<bridge_arbitrage_service, mc_ret>>
histVars == <<historical_simulations, sims_completed>>
pollVars == <<polling_running, polling_thread, polling_threads>>
fetchVars == <<retry_state, fetch_cached, fetch_ret>>
lateVars == <<depth_ret, combined_ret, pollVars, fetchVars>>
soloVars == <<tplVars, spread_calc, spotVars, mcVars, histVars, slippage_ret, lateVars>>

priorVars == <<cacheVars, hlVars, wsVars, arbVars, callerVars, tplVars, spread_calc,
               spotVars, mcVars, histVars, slippage_ret>>

vars == <<cacheVars, hlVars, wsVars, arbVars, callerVars, soloVars>>
nonCacheVars == <<hlVars, wsVars, arbVars, callerVars, soloVars>>
nonWsVars == <<cacheVars, arbVars, callerVars, soloVars>>

\* =================================================================== Cache
Keys == {"k1", "hyperliquid:ws_prices"}

\* Python values handed to the cache: JSON-native ones (numbers) and one that
\* json.dumps can only write through default=str (a datetime).
PyNone == [t |-> "none", v |-> 0]
Values == {[t |-> "num", v |-> 1], [t |-> "num", v |-> 2], [t |-> "datetime", v |-> 1]}
\* A dict of JSON-native data (a price map), contents left abstract.
PyDict == [t |-> "dict", v |-> 0]

NoEntry == [t |-> "absent", v |-> 0, expires |-> 0]
NoSet == [val |-> PyNone, at |-> 0, ttl |-> 0, set |-> FALSE]
NoCall == [op |-> "none", key |-> "", val |-> PyNone, fault |-> FALSE]

\* json.dumps(value, default=str): a datetime is written as its str().
json_dumps(value) ==
    IF value.t = "datetime" THEN [t |-> "json_str", v |-> value.v]
    ELSE IF value.t = "str" THEN [t |-> "json_str", v |-> value.v]
    ELSE IF value.t = "num" THEN [t |-> "json_num", v |-> value.v]
    ELSE IF value.t = "dict" THEN [t |-> "json_obj", v |-> value.v]
    ELSE [t |-> "json_null", v |-> 0]

\* json.loads(text): a JSON string comes back as a str, never as a datetime.
json_loads(text) ==
    IF text.t = "json_str" THEN [t |-> "str", v |-> text.v]
    ELSE IF text.t = "json_num" THEN [t |-> "num", v |-> text.v]
    ELSE IF text.t = "json_obj" THEN [t |-> "dict", v |-> text.v]
    ELSE PyNone

\* redis GET: the stored text, or nothing once the key's ttl has run out.
redis_get(k) ==
    IF redis_store[k].t /= "absent" /\ now < redis_store[k].expires
    THEN redis_store[k] ELSE NoEntry

\* CacheService.get(key); fault: the Redis call raises RedisError.
Cache_get(k, fault) ==
    /\ cache_ret' =
         IF k \in DOMAIN local_cache
         THEN [op |-> "get", key |-> k, val |-> local_cache[k], fault |-> FALSE]
         ELSE IF ~redis_connected
         THEN [op |-> "get", key |-> k, val |-> PyNone, fault |-> FALSE]
         ELSE IF fault
         THEN [op |-> "get", key |-> k, val |-> PyNone, fault |-> TRUE]
         ELSE IF redis_get(k).t /= "absent"
         THEN [op |-> "get", key |-> k, val |-> json_loads(redis_get(k)), fault |-> FALSE]
         ELSE [op |-> "get", key |-> k, val |-> PyNone, fault |-> FALSE]
    /\ UNCHANGED <<redis_connected, local_cache, redis_store, now, last_set>>
    /\ UNCHANGED nonCacheVars

\* ttl = ttl or self.default_ttl (0 stands for None, both falsy)
effective_ttl(ttl) == IF ttl = 0 THEN default_ttl ELSE ttl

\* The remote tier after redis_client.setex(key, ttl, json.dumps(value)).
redis_setex(k, value, ttl) ==
    [redis_store EXCEPT ![k] =
        [t |-> json_dumps(value).t, v |-> json_dumps(value).v,
         expires |-> now + effective_ttl(ttl)]]

\* CacheService.set(key, value, ttl); fault: the Redis call raises RedisError,
\* and the handler's own except clause names json.JSONEncodeError, which the
\* json module does not have, so the call raises AttributeError.
Cache_set(k, value, ttl, fault) ==
    IF ~redis_connected
    THEN /\ cache_ret' = [op |-> "set_False", key |-> k, val |-> value, fault |-> FALSE]
         /\ last_set' = [last_set EXCEPT ![k] =
                [val |-> value, at |-> now, ttl |-> effective_ttl(ttl), set |-> TRUE]]
         /\ UNCHANGED <<redis_connected, local_cache, redis_store, now>>
         /\ UNCHANGED nonCacheVars
    ELSE IF fault
    THEN /\ cache_ret' = [op |-> "set_raise", key |-> k, val |-> value, fault |-> TRUE]
         /\ UNCHANGED <<redis_connected, local_cache, redis_store, now, last_set>>
         /\ UNCHANGED nonCacheVars
    ELSE /\ redis_store' = redis_setex(k, value, ttl)
         /\ cache_ret' = [op |-> "set_True", key |-> k, val |-> value, fault |-> FALSE]
         /\ last_set' = [last_set EXCEPT ![k] =
                [val |-> value, at |-> now, ttl |-> effective_ttl(ttl), set |-> TRUE]]
         /\ UNCHANGED <<redis_connected, local_cache, now>>
         /\ UNCHANGED nonCacheVars

\* One second passes.
Tick ==
    /\ now < MaxTime
    /\ now' = now + 1
    /\ cache_ret' = NoCall
    /\ UNCHANGED <<redis_connected, local_cache, redis_store, last_set>>
    /\ UNCHANGED nonCacheVars

CacheGetStep == \E k \in Keys, fault \in BOOLEAN : Cache_get(k, fault)
CacheSetStep == \E k \in Keys, value \in Values, ttl \in 0..MaxTtl, fault \in BOOLEAN :
                    Cache_set(k, value, ttl, fault)

\* CacheService.__init__: the ping decides redis_connected once.
InitCache ==
    /\ redis_connected \in BOOLEAN
    /\ local_cache = <<>>
    /\ redis_store = [k \in Keys |-> NoEntry]
    /\ now = 0
    /\ cache_ret = NoCall
    /\ last_set = [k \in Keys |-> NoSet]

NextCache == CacheGetStep \/ CacheSetStep \/ Tick

\* ================================================== WebSocketListener
\* WebSocketListener.__init__
max_reconnect_attempts == 10
base_delay == 1
max_delay == 60
\* connect(): "self.reconnect_attempts >= 3" switches to the testnet endpoint
fallback_after_attempts == 3

\* Coins the venue streams, and the prices it quotes (0: a px the handler drops).
NumCoins == 1
AllCoins == <<"SOL", "ETH", "BTC">>
Coins == {AllCoins[i] : i \in 1..NumCoins}
PxSet == {0, 1000, 1003}

\* ArbitrageService.__init__: supported_tokens, of which the model keeps the
\* first NumTokens.
NumTokens == 2
all_supported_tokens == <<"SOL", "ETH", "USDC", "USDT", "JUP", "BONK", "ORCA", "HL">>
supported_tokens == SubSeq(all_supported_tokens, 1, NumTokens)
Tokens == {supported_tokens[i] : i \in 1..NumTokens}

\* One side's quote inside price_data[token]: price is the dict's mark_price
\* (perp side) or spot_price/price (spot side); source "" is a dict without
\* a 'source' key.
NoLeg == [present |-> FALSE, price |-> 0, source |-> "", timestamp |-> 0]

\* The keys HyperliquidService.ws_data can hold, and what a key holds: nothing,
\* a reference to the listener's dict for the coin, or a dict of its own.
WsKeys == Coins \cup Tokens
NoRef == [ref |-> "none", own |-> NoLeg]
LiveRef == [ref |-> "live", own |-> NoLeg]

Min(a, b) == IF a < b THEN a ELSE b

NoPrice == [present |-> FALSE, mark_price |-> 0, has_book |-> FALSE, best_bid |-> 0,
            best_ask |-> 0, spread_pct |-> 0, timestamp |-> 0, source |-> ""]

\* What live_data holds per coin on the other channels: a funding_rates entry,
\* an open_interest entry, a volumes entry.
NoFunding == [present |-> FALSE, current_funding_rate |-> 0, timestamp |-> 0]
NoOpenInterest == [present |-> FALSE, open_interest |-> 0, timestamp |-> 0]
NoVolume == [present |-> FALSE, volume_1m |-> 0, trade_count |-> 0, last_reset |-> 0]

InitLiveData ==
    [prices |-> [c \in Coins |-> NoPrice],
     funding_rates |-> [c \in Coins |-> NoFunding],
     open_interest |-> [c \in Coins |-> NoOpenInterest],
     volumes |-> [c \in Coins |-> NoVolume],
     last_update |-> 0]

\* _process_all_mids: every entry with px > 0 REPLACES the coin's dict.
RECURSIVE process_all_mids(_, _, _)
process_all_mids(prices, data, timestamp) ==
    IF data = <<>> THEN prices
    ELSE LET mid == Head(data)
             upd == IF mid.px > 0
                    THEN [prices EXCEPT ![mid.coin] =
                            [present |-> TRUE, mark_price |-> mid.px, has_book |-> FALSE,
                             best_bid |-> 0, best_ask |-> 0, spread_pct |-> 0,
                             timestamp |-> timestamp, source |-> "hyperliquid_ws"]]
                    ELSE prices
         IN process_all_mids(upd, Tail(data), timestamp)

\* HyperliquidService._handle_ws_data("prices", data): ws_data.update(data)
\* stores, per coin, a reference to the listener's own dict.
handle_ws_data_prices(prices) ==
    [c \in WsKeys |-> IF c \in Coins /\ prices[c].present THEN LiveRef ELSE ws_data[c]]

\* ... followed by cache.set('hyperliquid:ws_prices', data, ttl=1), whose
\* failures _handle_ws_data swallows.
handle_ws_data_cache(fault) ==
    IF redis_connected /\ ~fault
    THEN redis_setex("hyperliquid:ws_prices", PyDict, 1)
    ELSE redis_store

\* The dict ws_data[c] refers to.
WsView(c) == IF ws_data[c].ref = "live" THEN live_data.prices[c] ELSE NoPrice
WsDataKeys == {c \in WsKeys : ws_data[c].ref /= "none"}

next_delay_uncapped(d) == d * 2
next_delay_tripled(d) == Min(d * 3, max_delay)
handle_reconnection_attempts_stuck(a) == a

\* _handle_reconnection's counter update
handle_reconnection_attempts(a) == a + 1

\* connect()'s "delay = min(delay * 2, self.max_delay)"
next_delay(d) == Min(d * 2, max_delay)

\* HyperliquidService.enable_websocket_streaming: creates the listener once,
\* registers the callback and starts the background thread.
EnableWebsocketStreaming ==
    /\ ws_listener = "none"
    /\ ws_listener' = "created"
    /\ bg_thread' = "started"
    /\ ws_enabled' = TRUE
    /\ UNCHANGED <<ws_data, hl_ret, running, reconnect_attempts, use_testnet_fallback,
                   delay, ws_pc, live_data, sleep_log, att_log, ep_fails, ep_attempts>>
    /\ UNCHANGED nonWsVars

\* run_listener in the background thread: signal.signal() is called off the
\* main thread and raises ValueError before the try block, so the thread ends
\* without setting running or calling connect().
RunListener ==
    /\ bg_thread = "started"
    /\ bg_thread' = "dead"
    /\ UNCHANGED <<running, reconnect_attempts, use_testnet_fallback, delay, ws_pc,
                   live_data, sleep_log, att_log, ep_fails, ep_attempts>>
    /\ UNCHANGED <<hlVars, nonWsVars>>

\* WebSocketListener.start(): running = True and connect() is scheduled;
\* connect() begins with delay = base_delay.
WsStart ==
    /\ ws_listener = "created"
    /\ ws_pc = "idle"
    /\ running' = TRUE
    /\ delay' = base_delay
    /\ ws_pc' = "loop"
    /\ UNCHANGED <<bg_thread, reconnect_attempts, use_testnet_fallback, live_data,
                   sleep_log, att_log, ep_fails, ep_attempts>>
    /\ UNCHANGED <<hlVars, nonWsVars>>

\* WebSocketListener.stop()
WsStop ==
    /\ ws_pc \in {"loop", "connecting", "listening", "sleeping"}
    /\ running
    /\ running' = FALSE
    /\ UNCHANGED <<bg_thread, reconnect_attempts, use_testnet_fallback, delay, ws_pc,
                   live_data, sleep_log, att_log, ep_fails, ep_attempts>>
    /\ UNCHANGED <<hlVars, nonWsVars>>

\* connect(): the while condition holds, websockets.connect is awaited.
WsConnectAttempt ==
    /\ ws_pc = "loop"
    /\ running /\ reconnect_attempts < max_reconnect_attempts
    /\ ws_pc' = "connecting"
    /\ ep_attempts' = Min(ep_attempts + 1, 2)
    /\ UNCHANGED <<bg_thread, running, reconnect_attempts, use_testnet_fallback, delay,
                   live_data, sleep_log, att_log, ep_fails>>
    /\ UNCHANGED <<hlVars, nonWsVars>>

\* connect(): the while condition fails, the coroutine returns.
WsLoopExit ==
    /\ ws_pc = "loop"
    /\ ~(running /\ reconnect_attempts < max_reconnect_attempts)
    /\ ws_pc' = "done"
    /\ UNCHANGED <<bg_thread, running, reconnect_attempts, use_testnet_fallback, delay,
                   live_data, sleep_log, att_log, ep_fails, ep_attempts>>
    /\ UNCHANGED <<hlVars, nonWsVars>>

\* connect(): the connection is made; counter and delay are reset, the four
\* subscriptions are sent and _listen() starts.
WsConnectOk ==
    /\ ws_pc = "connecting"
    /\ reconnect_attempts' = 0
    /\ delay' = base_delay
    /\ ws_pc' = "listening"
    /\ sleep_log' = <<>>
    /\ att_log' = <<>>
    /\ ep_fails' = 0
    /\ UNCHANGED <<bg_thread, running, use_testnet_fallback, live_data, ep_attempts>>
    /\ UNCHANGED <<hlVars, nonWsVars>>

\* _handle_reconnection(delay), up to the point where it sleeps or gives up;
\* a: the counter on entry to the except clause, a0: after the endpoint switch.
HandleReconnection(a, a0) ==
    /\ reconnect_attempts' = handle_reconnection_attempts(a0)
    /\ IF handle_reconnection_attempts(a0) < max_reconnect_attempts
       THEN /\ ws_pc' = "sleeping"
            /\ sleep_log' = Append(sleep_log, delay)
            /\ att_log' = Append(att_log, a)
            /\ UNCHANGED <<running, delay>>
       ELSE /\ running' = FALSE
            /\ delay' = next_delay(delay)
            /\ ws_pc' = "loop"
            /\ UNCHANGED <<sleep_log, att_log>>

\* connect(), "except Exception": websockets.connect failed.
WsConnectFail ==
    /\ ws_pc = "connecting"
    /\ LET switch == ~use_testnet_fallback /\ reconnect_attempts >= fallback_after_attempts
       IN /\ use_testnet_fallback' = (use_testnet_fallback \/ switch)
          /\ ep_fails' = IF switch THEN 0 ELSE ep_fails + 1
          /\ ep_attempts' = IF switch THEN 0 ELSE ep_attempts
          /\ HandleReconnection(reconnect_attempts,
                                IF switch THEN 0 ELSE reconnect_attempts)
    /\ UNCHANGED <<bg_thread, live_data>>
    /\ UNCHANGED <<hlVars, nonWsVars>>

\* connect(), "except ConnectionClosed": _listen()'s iteration raised.
WsClosedError ==
    /\ ws_pc = "listening"
    /\ HandleReconnection(reconnect_attempts, reconnect_attempts)
    /\ UNCHANGED <<bg_thread, use_testnet_fallback, live_data, ep_fails, ep_attempts>>
    /\ UNCHANGED <<hlVars, nonWsVars>>

\* _listen()'s iteration ends (the server closed cleanly): connect() loops
\* at once, with no sleep.
WsClosedOk ==
    /\ ws_pc = "listening"
    /\ ws_pc' = "loop"
    /\ UNCHANGED <<bg_thread, running, reconnect_attempts, use_testnet_fallback, delay,
                   live_data, sleep_log, att_log, ep_fails, ep_attempts>>
    /\ UNCHANGED <<hlVars, nonWsVars>>

\* asyncio.sleep(delay) returns; the except clause doubles the delay.
WsWake ==
    /\ ws_pc = "sleeping"
    /\ delay' = next_delay(delay)
    /\ ws_pc' = "loop"
    /\ UNCHANGED <<bg_thread, running, reconnect_attempts, use_testnet_fallback,
                   live_data, sleep_log, att_log, ep_fails, ep_attempts>>
    /\ UNCHANGED <<hlVars, nonWsVars>>

\* _process_message for channel allMids; data: a list of [coin, px], or not a
\* list at all (is_list = FALSE), which _process_all_mids ignores.
WsAllMids(data, is_list, fault) ==
    /\ ws_pc = "listening"
    /\ LET prices == IF is_list THEN process_all_mids(live_data.prices, data, now)
                     ELSE live_data.prices
       IN /\ live_data' = [live_data EXCEPT !.prices = prices, !.last_update = now]
          /\ ws_data' = IF is_list THEN handle_ws_data_prices(prices) ELSE ws_data
          /\ redis_store' = IF is_list THEN handle_ws_data_cache(fault) ELSE redis_store
    /\ UNCHANGED <<ws_listener, ws_enabled, hl_ret>>
    /\ UNCHANGED wsCtlVars
    /\ UNCHANGED <<redis_connected, local_cache, now, cache_ret, last_set>>
    /\ UNCHANGED <<arbVars, callerVars, soloVars>>

MidsMsgs == {<<[coin |-> c, px |-> p]>> : c \in Coins, p \in PxSet}

WsAllMidsStep == \E data \in MidsMsgs, is_list \in BOOLEAN, fault \in BOOLEAN :
                    WsAllMids(data, is_list, fault)

\* "Reset volume counter every minute": 60000 ms, in seconds
volume_window == 60

\* How many trades of a coin are followed.
MaxTrades == 2

\* _process_l1_book for a message with both sides of the book: the coin's dict
\* is created if missing and UPDATED with the four book fields (spread_pct in
\* basis points).
l1_book_update(prices, coin, best_bid, best_ask, timestamp) ==
    [prices EXCEPT ![coin] =
        [@ EXCEPT !.present = TRUE, !.has_book = TRUE,
                  !.best_bid = best_bid, !.best_ask = best_ask,
                  !.spread_pct = IF best_bid > 0
                                 THEN ((best_ask - best_bid) * 10000) \div best_bid
                                 ELSE 0,
                  !.timestamp = timestamp]]

\* _process_trades for one trade
process_trades(volumes, coin, size, timestamp) ==
    [volumes EXCEPT ![coin] =
        IF ~@.present
        THEN [present |-> TRUE, volume_1m |-> size, trade_count |-> 1,
              last_reset |-> timestamp]
        ELSE IF timestamp - @.last_reset > volume_window
        THEN [present |-> TRUE, volume_1m |-> size, trade_count |-> 1,
              last_reset |-> timestamp]
        ELSE [@ EXCEPT !.volume_1m = @ + size, !.trade_count = @ + 1]]

\* _process_message for channel l1Book
WsL1Book(coin, best_bid, best_ask) ==
    /\ ws_pc = "listening"
    /\ live_data' = [live_data EXCEPT
                        !.prices = l1_book_update(@, coin, best_bid, best_ask, now),
                        !.last_update = now]
    /\ UNCHANGED <<hlVars, wsCtlVars, nonWsVars>>

\* _process_message for channel trades, one trade in the list
WsTrades(coin, size) ==
    /\ ws_pc = "listening"
    /\ live_data.volumes[coin].trade_count < MaxTrades
    /\ live_data' = [live_data EXCEPT
                        !.volumes = process_trades(@, coin, size, now),
                        !.last_update = now]
    /\ UNCHANGED <<hlVars, wsCtlVars, nonWsVars>>

\* _process_message for channel meta, one asset in the universe; the callbacks
\* it notifies ignore every data type but "prices".
WsMeta(coin, funding_rate, oi) ==
    /\ ws_pc = "listening"
    /\ live_data' = [live_data EXCEPT
                        !.funding_rates[coin] =
                            [present |-> TRUE, current_funding_rate |-> funding_rate,
                             timestamp |-> now],
                        !.open_interest[coin] =
                            IF oi > 0
                            THEN [present |-> TRUE, open_interest |-> oi, timestamp |-> now]
                            ELSE @,
                        !.last_update = now]
    /\ UNCHANGED <<hlVars, wsCtlVars, nonWsVars>>

WsL1BookStep == \E coin \in Coins, best_bid \in {0, 1000}, best_ask \in {1003} :
                    WsL1Book(coin, best_bid, best_ask)
WsTradesStep == \E coin \in Coins, size \in {2} : WsTrades(coin, size)
WsMetaStep == \E coin \in Coins, funding_rate \in {0, 1}, oi \in {0, 5} :
                  WsMeta(coin, funding_rate, oi)

\* The listener connects once and processes messages of the four channels.
NextStream ==
    \/ EnableWebsocketStreaming
    \/ WsStart
    \/ WsConnectAttempt
    \/ WsConnectOk
    \/ WsAllMidsStep
    \/ WsL1BookStep
    \/ WsTradesStep
    \/ WsMetaStep
    \/ Tick

\* HyperliquidService.get_websocket_prices: the stream's cache if streaming
\* was enabled and the cache is non-empty, the REST path otherwise.
get_websocket_prices_origin ==
    IF ws_enabled /\ WsDataKeys /= {} THEN "ws" ELSE "rest"

\* One call of get_websocket_prices (the first step of a refresh cycle).
GetWebsocketPrices ==
    /\ hl_ret' = [origin |-> get_websocket_prices_origin, seq |-> 1 - hl_ret.seq]
    /\ UNCHANGED <<ws_listener, ws_enabled, ws_data>>
    /\ UNCHANGED <<wsVars, nonWsVars>>

InitHl ==
    /\ ws_listener = "none"
    /\ ws_enabled = FALSE
    /\ ws_data = [c \in WsKeys |-> NoRef]
    /\ hl_ret = [origin |-> "none", seq |-> 0]

InitWs ==
    /\ bg_thread = "none"
    /\ running = FALSE
    /\ reconnect_attempts = 0
    /\ use_testnet_fallback = FALSE
    /\ delay = base_delay
    /\ ws_pc = "idle"
    /\ live_data = InitLiveData
    /\ sleep_log = <<>>
    /\ att_log = <<>>
    /\ ep_fails = 0
    /\ ep_attempts = 0

NextWs ==
    \/ EnableWebsocketStreaming
    \/ RunListener
    \/ WsStart
    \/ WsStop
    \/ WsConnectAttempt
    \/ WsLoopExit
    \/ WsConnectOk
    \/ WsConnectFail
    \/ WsClosedError
    \/ WsClosedOk
    \/ WsWake
    \/ WsAllMidsStep
    \/ GetWebsocketPrices

\* ==================================================== ArbitrageService
\* Prices are integers in a per-token tick; spreads are in hundredths of a
\* percent, so min_spread_threshold (0.3 in the source) is 30.
min_spread_threshold == 30
\* update_all_prices: "if len(hl_prices) < 3", "if len(jupiter_prices) < 3"
min_tokens == 3

\* _generate_demo_spot_prices' base_prices, in ticks
demo_spot_base(t) ==
    CASE t = "SOL" -> 19000 [] t = "ETH" -> 35000 [] t = "USDC" -> 99000
      [] t = "USDT" -> 100000 [] t = "JUP" -> 40000 [] t = "BONK" -> 20000
      [] t = "ORCA" -> 15000 [] OTHER -> 44000

\* _generate_demo_perp_prices' base_prices, in the same ticks (SOL differs)
demo_perp_base(t) == IF t = "SOL" THEN 15000 ELSE demo_spot_base(t)

\* The spreads random.random() can give _generate_demo_perp_prices, in tenths
\* of a percent, and the quotes the spot sources can give for a token.
DemoSpreads == {-3, 2, 3}
JupiterQuotes(t) == {0, demo_spot_base(t)}
FallbackQuotes(t) == {demo_spot_base(t)}

\* JupiterService.token_mints
token_mints == {"SOL", "USDC", "USDT", "JUP", "BONK", "ORCA", "HL"}

Abs(x) == IF x < 0 THEN -x ELSE x
KeysOf(m) == {t \in DOMAIN m : m[t].present}
NoLegs == [t \in Tokens |-> NoLeg]

NoData == [present |-> FALSE, hyperliquid |-> NoLeg, jupiter |-> NoLeg, last_updated |-> 0]
NoOpp == [present |-> FALSE, spot_price |-> 0, perp_price |-> 0, spread_pct |-> 0,
          spread_abs |-> 0, strategy |-> "", timestamp |-> 0,
          slippage_estimate_bps |-> FALSE]

\* The perp dict get_websocket_prices' result holds for key c.
HlLeg(c) ==
    IF ws_data[c].ref = "live"
    THEN [present |-> TRUE, price |-> live_data.prices[c].mark_price,
          source |-> live_data.prices[c].source,
          timestamp |-> live_data.prices[c].timestamp]
    ELSE ws_data[c].own

\* _generate_demo_perp_prices, ds[t] the spread drawn for token t
generate_demo_perp_prices(ds) ==
    [t \in Tokens |->
        IF t = "USDT" THEN NoLeg
        ELSE LET spot_price == IF price_data[t].present /\ price_data[t].jupiter.present
                               THEN price_data[t].jupiter.price
                               ELSE demo_perp_base(t)
             IN IF spot_price > 0
                THEN [present |-> TRUE, price |-> spot_price + (spot_price * ds[t]) \div 1000,
                      source |-> "", timestamp |-> now]
                ELSE NoLeg]

\* _generate_demo_spot_prices: an entry for every supported token (and BTC).
demo_spot_prices(tracked) ==
    [t \in tracked |-> [present |-> TRUE, price |-> demo_spot_base(t),
                        source |-> "demo", timestamp |-> now]]
generate_demo_spot_prices == demo_spot_prices(Tokens)

\* "spread_pct = ((perp_price - spot_price) / spot_price) * 100", as |spread|
\* in hundredths of a percent (rounded down) and its sign.
spread_abs(perp_price, spot_price) ==
    LET diff == Abs(perp_price - spot_price)
    IN (diff \div spot_price) * 10000 + ((diff % spot_price) * 10000) \div spot_price
spread_sign(perp_price, spot_price) ==
    IF perp_price > spot_price THEN 1 ELSE IF perp_price < spot_price THEN -1 ELSE 0

meets_threshold_strict(spread_pct) == Abs(spread_pct) > min_spread_threshold
meets_threshold_signed(spread_pct) == spread_pct >= min_spread_threshold

\* "if abs(spread_pct) >= self.min_spread_threshold"
meets_threshold(spread_pct) == Abs(spread_pct) >= min_spread_threshold

strategy_of_swapped(spread_pct) ==
    IF spread_pct > 0 THEN "short_spot_long_perp" ELSE "long_spot_short_perp"

\* "if spread_pct > 0: strategy = 'long_spot_short_perp' else: ..."
strategy_of(spread_pct) ==
    IF spread_pct > 0 THEN "long_spot_short_perp" ELSE "short_spot_long_perp"

\* A division a spread computation performs, or none.
NoDivision == [divided |-> FALSE, divisor |-> 0]
Division(d) == [divided |-> TRUE, divisor |-> d]

\* The detector divides by the spot price only when both prices are positive.
detector_division(perp_price, spot_price) ==
    IF perp_price > 0 /\ spot_price > 0 THEN Division(spot_price) ELSE NoDivision

\* One iteration of _calculate_arbitrage_opportunities' loop: the entry it
\* stores for a token, or none.
calculate_opportunity(token_data) ==
    LET hl_data == token_data.hyperliquid
        jupiter_data == token_data.jupiter
    IN IF ~token_data.present \/ ~hl_data.present \/ ~jupiter_data.present THEN NoOpp
       ELSE IF ~detector_division(hl_data.price, jupiter_data.price).divided THEN NoOpp
       ELSE LET sa == spread_abs(hl_data.price, jupiter_data.price)
                sgn == spread_sign(hl_data.price, jupiter_data.price)
            IN IF meets_threshold(sgn * sa)
               THEN [present |-> TRUE, spot_price |-> jupiter_data.price,
                     perp_price |-> hl_data.price, spread_pct |-> sgn * sa,
                     spread_abs |-> sa,
                     strategy |-> strategy_of(sgn * sa),
                     timestamp |-> now, slippage_estimate_bps |-> FALSE]
               ELSE NoOpp

\* What the spot sources can answer. JupiterService.get_spot_prices quotes
\* tokens of token_mints, FallbackService.get_fallback_prices the tokens it
\* is asked for; either raises only out of cache.set, which needs Redis.
RECURSIVE Product(_)
Product(choices) ==
    IF DOMAIN choices = {} THEN {<<>>}
    ELSE LET t == CHOOSE u \in DOMAIN choices : TRUE
             rest == Product([u \in DOMAIN choices \ {t} |-> choices[u]])
         IN {(t :> v) @@ r : v \in choices[t], r \in rest}
\* (The ...On operators take the list of tracked tokens as a parameter; the
\* service's own are their instances at supported_tokens.)
JupResultsOn(tracked) ==
    Product([t \in tracked |->
        IF t \in token_mints
        THEN {NoLeg} \cup {[present |-> TRUE, price |-> q, source |-> "", timestamp |-> now]
                           : q \in JupiterQuotes(t)}
        ELSE {NoLeg}])
JupResults == JupResultsOn(Tokens)
FbResultsOn(tracked, tokens) ==
    Product([t \in tracked |->
        IF t \in tokens
        THEN {NoLeg} \cup {[present |-> TRUE, price |-> q, source |-> "coingecko",
                            timestamp |-> now] : q \in FallbackQuotes(t)}
        ELSE {NoLeg}])
FbResults(tokens) == FbResultsOn(Tokens, tokens)
RaisedOn(tracked) == [raised |-> TRUE, prices |-> [t \in tracked |-> NoLeg]]
Raised == RaisedOn(Tokens)
JupOutcomesOn(tracked) ==
    {[raised |-> FALSE, prices |-> m] : m \in JupResultsOn(tracked)}
    \cup (IF redis_connected THEN {RaisedOn(tracked)} ELSE {})
JupOutcomes == JupOutcomesOn(Tokens)
FbOutcomesOn(tracked, tokens) ==
    {[raised |-> FALSE, prices |-> m] : m \in FbResultsOn(tracked, tokens)}
    \cup (IF redis_connected THEN {RaisedOn(tracked)} ELSE {})
FbOutcomes(tokens) == FbOutcomesOn(Tokens, tokens)

\* a.update(b) on token -> dict maps
Overlay(a, b) == [t \in DOMAIN a |-> IF b[t].present THEN b[t] ELSE a[t]]
\* "for token, data in demo.items(): if token not in prices: prices[token] = data"
Supplement(prices, demo) == [t \in DOMAIN prices |-> IF prices[t].present THEN prices[t] ELSE demo[t]]

\* update_all_prices enters "with self.data_lock".
RefreshAcquire ==
    /\ refresh_pc = "idle"
    /\ data_lock = "free"
    /\ data_lock' = "refresh"
    /\ refresh_pc' = "perp"
    /\ UNCHANGED <<price_data, arbitrage_opportunities, historical_data, calc_i, hl_prices>>
    /\ UNCHANGED <<soloVars, cacheVars, hlVars, wsVars, callerVars>>

\* update_all_prices, the perp side: get_websocket_prices() answers (the
\* stream's own dict, or the REST path, which finds no token in the empty
\* _token_universe), then the demo prices replace or supplement it. A
\* supplement of the stream's dict is written into ws_data itself.
RefreshPerp(ds) ==
    /\ refresh_pc = "perp"
    /\ LET from_ws == get_websocket_prices_origin = "ws"
           len0 == IF from_ws THEN Cardinality(WsDataKeys) ELSE 0
           demo == generate_demo_perp_prices(ds)
           got == [t \in Tokens |-> IF from_ws THEN HlLeg(t) ELSE NoLeg]
       IN /\ hl_ret' = [origin |-> get_websocket_prices_origin, seq |-> 1 - hl_ret.seq]
          /\ IF len0 = 0
             THEN /\ hl_prices' = demo
                  /\ ws_data' = ws_data
             ELSE IF len0 < min_tokens
             THEN /\ hl_prices' = Supplement(got, demo)
                  /\ ws_data' = [c \in WsKeys |->
                                    IF c \in Tokens /\ ws_data[c].ref = "none" /\ demo[c].present
                                    THEN [ref |-> "own", own |-> demo[c]]
                                    ELSE ws_data[c]]
             ELSE /\ hl_prices' = got
                  /\ ws_data' = ws_data
    /\ refresh_pc' = "spot"
    /\ UNCHANGED <<price_data, arbitrage_opportunities, historical_data, data_lock, calc_i>>
    /\ UNCHANGED <<ws_listener, ws_enabled>>
    /\ UNCHANGED <<soloVars, cacheVars, wsVars, callerVars>>

RefreshPerpStep == \E ds \in [Tokens -> DemoSpreads] : RefreshPerp(ds)

\* What the spot side of update_all_prices ends with ("abort": the exception
\* reached the outer except clause):
\*   jo  get_spot_prices(use_fallback=False);
\*   fo  get_fallback_prices(missing tokens), asked when Jupiter quoted fewer
\*       than len(supported_tokens) // 2 tokens;
\*   fo2 get_fallback_prices(supported_tokens), in the inner except clause.
\* "fetched" are the quotes of the sources, before any demo quote is added,
\* and "asked" the token lists get_fallback_prices was called with, in order.
spot_side_on(tracked, jo, fo, fo2) ==
    LET limited == Cardinality(KeysOf(jo.prices)) < Cardinality(tracked) \div 2
        in_except == jo.raised \/ (limited /\ fo.raised)
        fetched == IF in_except THEN Overlay(jo.prices, fo2.prices)
                   ELSE IF limited
                   THEN Overlay(jo.prices, fo.prices)
                   ELSE jo.prices
        all_demo == in_except /\ KeysOf(fetched) = {}
        jupiter_prices == IF all_demo THEN demo_spot_prices(tracked)
                          ELSE IF Cardinality(KeysOf(fetched)) < min_tokens
                          THEN Supplement(fetched, demo_spot_prices(tracked))
                          ELSE fetched
        missing == tracked \ KeysOf(jo.prices)
        asked == IF jo.raised THEN <<tracked>>
                 ELSE IF ~limited THEN <<>>
                 ELSE IF fo.raised THEN <<missing, tracked>>
                 ELSE <<missing>>
    IN [abort |-> in_except /\ fo2.raised, jupiter_prices |-> jupiter_prices,
        fetched |-> fetched, asked |-> asked]
spot_side(jo, fo, fo2) == spot_side_on(Tokens, jo, fo, fo2)

\* "Merge data": each supported token's dict is created once and its sides
\* are overwritten in place.
merge_data(jupiter_prices) ==
    [t \in Tokens |->
        [present |-> TRUE,
         hyperliquid |-> IF hl_prices[t].present THEN hl_prices[t]
                         ELSE price_data[t].hyperliquid,
         jupiter |-> IF jupiter_prices[t].present THEN jupiter_prices[t]
                     ELSE price_data[t].jupiter,
         last_updated |-> now]]

\* The dicts a get_price_data result refers to.
SnapRefs == IF pd_snap.kind = "token" THEN {pd_snap.token}
            ELSE IF pd_snap.kind = "all" THEN pd_snap.keys
            ELSE {}

\* Where update_all_prices is after an exception reached its outer
\* "except Exception" clause: the clause logs the error and the method
\* returns ("propagated" would be the exception leaving the method).
after_outer_except_reraise == "propagated"
after_outer_except == "idle"

\* update_all_prices, the spot side and the merge, up to the first statement
\* of _calculate_arbitrage_opportunities, which rebinds the map to a new {}.
RefreshSpot(jo, fo, fo2) ==
    /\ refresh_pc = "spot"
    /\ LET r == spot_side(jo, fo, fo2)
       IN IF r.abort
          THEN /\ refresh_pc' = after_outer_except
               /\ data_lock' = "free"
               /\ UNCHANGED <<price_data, arbitrage_opportunities, calc_i, pd_snap, api_opps>>
          ELSE /\ price_data' = merge_data(r.jupiter_prices)
               /\ arbitrage_opportunities' = [t \in Tokens |-> NoOpp]
               /\ calc_i' = 1
               /\ refresh_pc' = "calc"
               /\ pd_snap' = [pd_snap EXCEPT !.altered =
                                @ \/ \E t \in SnapRefs : price_data'[t] /= price_data[t]]
               /\ api_opps' = [api_opps EXCEPT !.attached = FALSE]
               /\ UNCHANGED data_lock
    /\ hl_prices' = NoLegs
    /\ UNCHANGED <<historical_data, gpd_pc, sim_pc, sim_ret>>
    /\ UNCHANGED <<soloVars, cacheVars, hlVars, wsVars>>

RefreshSpotStep ==
    \E jo \in JupOutcomes :
        IF jo.raised
        THEN \E fo2 \in FbOutcomes(Tokens) : RefreshSpot(jo, Raised, fo2)
        ELSE IF Cardinality(KeysOf(jo.prices)) < NumTokens \div 2
        THEN \E fo \in FbOutcomes(Tokens \ KeysOf(jo.prices)) :
                IF fo.raised
                THEN \E fo2 \in FbOutcomes(Tokens) : RefreshSpot(jo, fo, fo2)
                ELSE RefreshSpot(jo, fo, Raised)
        ELSE RefreshSpot(jo, Raised, Raised)

\* One iteration of _calculate_arbitrage_opportunities' loop.
RefreshCalc ==
    /\ refresh_pc = "calc"
    /\ LET token == supported_tokens[calc_i]
       IN arbitrage_opportunities' =
            [arbitrage_opportunities EXCEPT ![token] = calculate_opportunity(price_data[token])]
    /\ calc_i' = calc_i + 1
    /\ refresh_pc' = IF calc_i = NumTokens THEN "store" ELSE "calc"
    /\ UNCHANGED <<price_data, historical_data, data_lock, hl_prices>>
    /\ UNCHANGED <<soloVars, cacheVars, hlVars, wsVars, callerVars>>

\* max(spreads) of _store_historical_data
RECURSIVE MaxOf(_)
MaxOf(S) == IF S = {} THEN 0
            ELSE LET x == CHOOSE y \in S : TRUE
                     m == MaxOf(S \ {x})
                 IN IF x > m THEN x ELSE m

\* _store_historical_data appends a data point (the list keeps its newest
\* 1000), then the with block ends.
RefreshStore ==
    /\ refresh_pc = "store"
    /\ historical_data' =
         LET opps == {t \in Tokens : arbitrage_opportunities[t].present}
         IN [present |-> TRUE, timestamp |-> now, opportunities |-> Cardinality(opps),
             max_spread |-> MaxOf({arbitrage_opportunities[t].spread_abs : t \in opps})]
    /\ data_lock' = "free"
    /\ refresh_pc' = "idle"
    /\ calc_i' = 0
    /\ UNCHANGED <<price_data, arbitrage_opportunities, hl_prices>>
    /\ UNCHANGED <<soloVars, cacheVars, hlVars, wsVars, callerVars>>

\* ---- callers
NoPoint == [present |-> FALSE, timestamp |-> 0, opportunities |-> 0, max_spread |-> 0]
\* altered: a refresh has since overwritten, with other content, a dict the
\* result refers to.
NoSnap == [kind |-> "none", token |-> "", keys |-> {}, altered |-> FALSE]
NoList == [held |-> FALSE, attached |-> FALSE, list |-> <<>>]
NoSim == [op |-> "none", token |-> "", partial |-> FALSE]

\* get_price_data(token) inside the lock: the token's own dict (a new {} if
\* the token is unknown), or self.price_data.copy(), a new outer dict whose
\* values are the tokens' own dicts.
get_price_data(arg) ==
    IF arg = "" THEN [kind |-> "all", token |-> "",
                      keys |-> {t \in Tokens : price_data[t].present}, altered |-> FALSE]
    ELSE IF price_data[arg].present
    THEN [kind |-> "token", token |-> arg, keys |-> {}, altered |-> FALSE]
    ELSE [kind |-> "empty", token |-> arg, keys |-> {}, altered |-> FALSE]

\* A caller enters get_price_data: it returns at once if data_lock is free
\* and blocks on the lock otherwise.
GetPriceDataCall(arg) ==
    /\ gpd_pc.st = "idle"
    /\ IF data_lock = "free"
       THEN /\ pd_snap' = get_price_data(arg)
            /\ UNCHANGED gpd_pc
       ELSE /\ gpd_pc' = [st |-> "blocked", arg |-> arg]
            /\ UNCHANGED pd_snap
    /\ UNCHANGED <<api_opps, sim_pc, sim_ret>>
    /\ UNCHANGED <<soloVars, cacheVars, hlVars, wsVars, arbVars>>

GetPriceDataStep == \E arg \in Tokens \cup {""} : GetPriceDataCall(arg)

\* The blocked caller gets the lock.
GetPriceDataResume ==
    /\ gpd_pc.st = "blocked"
    /\ data_lock = "free"
    /\ pd_snap' = get_price_data(gpd_pc.arg)
    /\ gpd_pc' = [st |-> "idle", arg |-> ""]
    /\ UNCHANGED <<api_opps, sim_pc, sim_ret>>
    /\ UNCHANGED <<soloVars, cacheVars, hlVars, wsVars, arbVars>>

\* list(self.arbitrage_opportunities.values()): the entries in the order the
\* cycle's loop inserted them, the order of supported_tokens.
IsOpp(t) == arbitrage_opportunities[t].present
opportunity_values == SelectSeq(supported_tokens, IsOpp)

\* "[opp for opp in opportunities if opp['spread_abs'] >= min_spread]";
\* min_spread = NoMinSpread is the call without the argument.
NoMinSpread == -1
MinSpreadArgs == {NoMinSpread, 100}
RECURSIVE filter_min_spread(_, _)
filter_min_spread(seq, min_spread) ==
    IF seq = <<>> THEN <<>>
    ELSE LET rest == filter_min_spread(Tail(seq), min_spread)
         IN IF min_spread = NoMinSpread
               \/ arbitrage_opportunities[Head(seq)].spread_abs >= min_spread
            THEN <<Head(seq)>> \o rest
            ELSE rest

\* The index list.sort(key=spread_abs, reverse=True) puts first: the largest
\* key, and among equal keys the one that came first (the sort is stable,
\* reverse keeps the original order of equal elements).
sort_pick(seq) ==
    CHOOSE i \in 1..Len(seq) :
        \A j \in 1..Len(seq) :
            \/ arbitrage_opportunities[seq[j]].spread_abs
                 < arbitrage_opportunities[seq[i]].spread_abs
            \/ /\ arbitrage_opportunities[seq[j]].spread_abs
                    = arbitrage_opportunities[seq[i]].spread_abs
               /\ j >= i

RECURSIVE sort_by_spread_abs(_)
sort_by_spread_abs(seq) ==
    IF seq = <<>> THEN <<>>
    ELSE LET i == sort_pick(seq)
         IN <<seq[i]>> \o sort_by_spread_abs(SubSeq(seq, 1, i - 1) \o SubSeq(seq, i + 1, Len(seq)))

\* get_arbitrage_opportunities(min_spread) inside the lock, as the tokens of
\* the returned dicts in list order.
get_arbitrage_opportunities(min_spread) ==
    sort_by_spread_abs(filter_min_spread(opportunity_values, min_spread))

\* The /arbitrage route calls get_arbitrage_opportunities(): a new list of
\* the map's own opportunity dicts.
ApiGetOpps(min_spread) ==
    /\ ~api_opps.held
    /\ data_lock = "free"
    /\ api_opps' = [held |-> TRUE, attached |-> TRUE,
                    list |-> LET l == get_arbitrage_opportunities(min_spread)
                             IN [i \in 1..Len(l) |->
                                    [token |-> l[i],
                                     spread_abs |-> arbitrage_opportunities[l[i]].spread_abs]]]
    /\ UNCHANGED <<gpd_pc, pd_snap, sim_pc, sim_ret>>
    /\ UNCHANGED <<soloVars, cacheVars, hlVars, wsVars, arbVars>>

ApiGetOppsStep == \E min_spread \in MinSpreadArgs : ApiGetOpps(min_spread)

\* The route then sets opp['slippage_estimate_bps'] on every dict of the list
\* and answers. The dicts are the map's own for as long as no refresh has
\* rebound the map (attached).
ApiEnhance ==
    /\ api_opps.held
    /\ arbitrage_opportunities' =
         [t \in Tokens |->
            IF api_opps.attached /\ \E i \in 1..Len(api_opps.list) : api_opps.list[i].token = t
            THEN [arbitrage_opportunities[t] EXCEPT !.slippage_estimate_bps = TRUE]
            ELSE arbitrage_opportunities[t]]
    /\ api_opps' = NoList
    /\ UNCHANGED <<price_data, historical_data, data_lock, refresh_pc, calc_i, hl_prices>>
    /\ UNCHANGED <<gpd_pc, pd_snap, sim_pc, sim_ret>>
    /\ UNCHANGED <<soloVars, cacheVars, hlVars, wsVars>>

\* The map is reset and its loop has not finished.
OppsPartlyRewritten == refresh_pc = "calc"

\* simulate_arbitrage_trade(token), first read, without the lock:
\* "if token not in self.arbitrage_opportunities: return {'error': ...}"
SimCheck(token) ==
    /\ sim_pc.st = "idle"
    /\ IF arbitrage_opportunities[token].present
       THEN /\ sim_pc' = [st |-> "checked", token |-> token]
            /\ sim_ret' = NoSim
       ELSE /\ sim_ret' = [op |-> "no_opportunity", token |-> token,
                           partial |-> OppsPartlyRewritten]
            /\ UNCHANGED sim_pc
    /\ UNCHANGED <<gpd_pc, pd_snap, api_opps>>
    /\ UNCHANGED <<soloVars, cacheVars, hlVars, wsVars, arbVars>>

SimCheckStep == \E token \in Tokens : SimCheck(token)

\* simulate_arbitrage_trade, second read, without the lock:
\* "opp = self.arbitrage_opportunities[token]"; a KeyError ends in the
\* except clause, otherwise the two simulations run on opp.
SimRead ==
    /\ sim_pc.st = "checked"
    /\ sim_ret' = [op |-> IF arbitrage_opportunities[sim_pc.token].present
                          THEN "simulated" ELSE "KeyError",
                   token |-> sim_pc.token, partial |-> OppsPartlyRewritten]
    /\ sim_pc' = [st |-> "idle", token |-> ""]
    /\ UNCHANGED <<gpd_pc, pd_snap, api_opps>>
    /\ UNCHANGED <<soloVars, cacheVars, hlVars, wsVars, arbVars>>

InitArb ==
    /\ price_data = [t \in Tokens |-> NoData]
    /\ arbitrage_opportunities = [t \in Tokens |-> NoOpp]
    /\ historical_data = NoPoint
    /\ data_lock = "free"
    /\ refresh_pc = "idle"
    /\ calc_i = 0
    /\ hl_prices = NoLegs
    /\ gpd_pc = [st |-> "idle", arg |-> ""]
    /\ pd_snap = NoSnap
    /\ api_opps = NoList
    /\ sim_pc = [st |-> "idle", token |-> ""]
    /\ sim_ret = NoSim

Refresh == RefreshAcquire \/ RefreshPerpStep \/ RefreshSpotStep \/ RefreshCalc
           \/ RefreshStore

NextArb == Refresh \/ SimCheckStep \/ SimRead

NextSnap == Refresh \/ GetPriceDataStep \/ GetPriceDataResume

NextApi == Refresh \/ ApiGetOppsStep \/ ApiEnhance

\* update_all_prices is inside a network call: the REST perp fetch, or the
\* spot sources' HTTP requests.
RefreshInNetworkIO ==
    \/ refresh_pc = "perp" /\ get_websocket_prices_origin = "rest"
    \/ refresh_pc = "spot"

\* ================================================== Spread computations
\* Prices the spread computations are applied to.
Prices == {-100, 0, 100, 101}

\* An optional argument of the Monte Carlo simulation: None, or a number.
NoArg == [given |-> FALSE, v |-> 0]
PriceArgs == {NoArg} \cup {[given |-> TRUE, v |-> p] : p \in Prices}
FundingArgs == {NoArg, [given |-> TRUE, v |-> 1]}

mc_default_jupiter == 100
mc_default_hyperliquid == 101

NoCalc == [site |-> "none", div |-> NoDivision, outcome |-> "none"]

\* The outcome of a division the code performs unguarded: a ZeroDivisionError,
\* which the enclosing try turns into an error payload, or a value.
divide_by(site, d) ==
    [site |-> site, div |-> Division(d),
     outcome |-> IF d = 0 THEN "error" ELSE "value"]

\* AnalyticsService.calculate_spread_bps
calculate_spread_bps(spot_price, perp_price) ==
    IF spot_price <= 0 \/ perp_price <= 0
    THEN [site |-> "analytics", div |-> NoDivision, outcome |-> "zero"]
    ELSE divide_by("analytics", spot_price)

\* The top-of-book spread of HyperliquidWebSocketListener._process_l1_book
process_l1_book(best_bid, best_ask) ==
    IF best_bid > 0 THEN divide_by("l1_book", best_bid)
    ELSE [site |-> "l1_book", div |-> NoDivision, outcome |-> "zero"]

\* The spread of one iteration of _calculate_arbitrage_opportunities
detector_spread(perp_price, spot_price) ==
    LET d == detector_division(perp_price, spot_price)
    IN IF d.divided THEN divide_by("detector", d.divisor)
       ELSE [site |-> "detector", div |-> NoDivision, outcome |-> "zero"]

\* Python's "x or default" on an optional number: None and 0 give the default.
or_default(arg, default) ==
    IF arg.given /\ arg.v /= 0 THEN arg.v ELSE default

\* ---- simulate_bridge_execution_monte_carlo
max_sims == 5000
max_sample_draws == 10

\* The methods of BridgeArbitrageService (there is no get_execution_template).
BridgeServiceMethods ==
    {"simulate_bridge_execution", "simulate_bridge_execution_monte_carlo",
     "get_bridge_analytics", "save_execution_template", "get_execution_templates",
     "delete_execution_template", "get_historical_spread_bridges"}

\* The keys of the dictionaries stored as a token's 'jupiter' and
\* 'hyperliquid' legs (every writer: Jupiter, the fallback conversion, the
\* stream, the demo generators).
JupiterLegKeys == {"spot_price", "price", "mint_address", "liquidity", "volume_24h",
                   "volume24h", "source", "timestamp"}
HyperliquidLegKeys == {"mark_price", "index_price", "funding_rate", "spread_pct",
                       "mid_price", "best_bid", "best_ask", "source", "timestamp"}
\* The keys of a token's dictionary in price_data.
TokenDataKeys == {"jupiter", "hyperliquid", "last_updated"}

\* leg.get(key, default) for a price key of a leg
leg_get(leg, keys, key, default) ==
    IF leg.present /\ key \in keys THEN leg.price ELSE default

\* A call's arguments.
McTokens == {"SOL"}
McPriceArgs == {NoArg, [given |-> TRUE, v |-> 0], [given |-> TRUE, v |-> 100]}
Notionals == {-1000, 0, 1000}
NSims == {-1, 0, 3, 5001}
NoTemplate == ""
TemplateArgs == {NoTemplate, "SOL Scalping", "Custom"}
HlPriceArgs == {NoArg, [given |-> TRUE, v |-> 101]}
McRequests ==
    [token : McTokens, notional_usd : Notionals, template : TemplateArgs,
     n_sims : NSims, jupiter_price : McPriceArgs, hyperliquid_price : HlPriceArgs,
     funding_rate : FundingArgs]

NoMc == [kind |-> "none"]

\* The prices and the funding rate after "Get current market data if not
\* provided": untouched when all three were given or no aggregator is
\* attached; otherwise "x or default", the default looked up in the token's
\* price data ('spot', 'mark', 'fallback') or, for a token without price
\* data, a literal.
mc_market_data(req) ==
    LET any_none == \/ ~req.jupiter_price.given
                    \/ ~req.hyperliquid_price.given
                    \/ ~req.funding_rate.given
        has_data == req.token \in Tokens /\ price_data[req.token].present
        jupiter_data == IF has_data THEN price_data[req.token].jupiter ELSE NoLeg
        hyperliquid_data == IF has_data THEN price_data[req.token].hyperliquid ELSE NoLeg
        fallback_price(default) ==
            IF has_data /\ "fallback" \in TokenDataKeys THEN 0 ELSE default
        jupiter_default ==
            IF has_data
            THEN leg_get(jupiter_data, JupiterLegKeys, "spot",
                         fallback_price(mc_default_jupiter))
            ELSE mc_default_jupiter
        hyperliquid_default ==
            IF has_data
            THEN leg_get(hyperliquid_data, HyperliquidLegKeys, "mark",
                         fallback_price(mc_default_hyperliquid))
            ELSE mc_default_hyperliquid
    IN IF any_none /\ bridge_arbitrage_service = "attached"
       THEN [jupiter_price |-> [given |-> TRUE,
                                v |-> or_default(req.jupiter_price, jupiter_default)],
             hyperliquid_price |-> [given |-> TRUE,
                                    v |-> or_default(req.hyperliquid_price,
                                                     hyperliquid_default)],
             funding_given |-> TRUE]
       ELSE [jupiter_price |-> req.jupiter_price,
             hyperliquid_price |-> req.hyperliquid_price,
             funding_given |-> req.funding_rate.given]

\* Where the body raises, if it does (the except clause then returns the
\* error payload), in the order of the statements:
\*   "template"  self.get_execution_template, a method that does not exist;
\*   "prices"    abs(jupiter_price - hyperliquid_price) with a None;
\*   "division"  ... / jupiter_price with jupiter_price = 0;
\*   "zeros"     np.zeros(n_sims) with n_sims < 0;
\*   "funding"   abs(funding_rate) with None, in the first iteration;
\*   "empty"     np.min(pnl_samples) of an empty array, n_sims = 0.
\* (np.log of a non-positive notional gives -inf or nan and does not raise.)
mc_raises(req) ==
    LET md == mc_market_data(req)
        n == Min(req.n_sims, max_sims)
    IN IF req.template /= NoTemplate /\ "get_execution_template" \notin BridgeServiceMethods
       THEN "template"
       ELSE IF ~md.jupiter_price.given \/ ~md.hyperliquid_price.given THEN "prices"
       ELSE IF md.jupiter_price.v = 0 THEN "division"
       ELSE IF n < 0 THEN "zeros"
       ELSE IF n >= 1 /\ ~md.funding_given THEN "funding"
       ELSE IF n = 0 THEN "empty"
       ELSE "no"

simulate_bridge_execution_monte_carlo(req) ==
    LET md == mc_market_data(req)
        n == Min(req.n_sims, max_sims)
    IN IF mc_raises(req) /= "no"
       THEN [kind |-> "error", req |-> req, n_sims |-> n, raised |-> mc_raises(req)]
       ELSE [kind |-> "simulation_stats", req |-> req, n_simulations |-> n,
             sample_draws |-> Min(max_sample_draws, n),
             jupiter_price |-> md.jupiter_price.v,
             hyperliquid_price |-> md.hyperliquid_price.v,
             template |-> req.template]

\* The division of its "Calculate base spread" line, when the body gets there.
mc_spread_bps(req) ==
    IF mc_raises(req) \in {"template", "prices"}
    THEN [site |-> "monte_carlo", div |-> NoDivision, outcome |-> "none"]
    ELSE divide_by("monte_carlo", mc_market_data(req).jupiter_price.v)

\* _model_spread_decay's volatility factor, as simulate_bridge_execution calls it
model_spread_decay(jupiter_price, hyperliquid_price) ==
    divide_by("spread_decay", jupiter_price)

CalculateSpreadBps ==
    /\ \E spot_price, perp_price \in Prices :
           spread_calc' = calculate_spread_bps(spot_price, perp_price)
    /\ UNCHANGED <<tplVars, spotVars, mcVars, histVars, slippage_ret, lateVars, cacheVars, hlVars, wsVars, arbVars, callerVars>>

ProcessL1Book ==
    /\ \E best_bid, best_ask \in Prices :
           spread_calc' = process_l1_book(best_bid, best_ask)
    /\ UNCHANGED <<tplVars, spotVars, mcVars, histVars, slippage_ret, lateVars, cacheVars, hlVars, wsVars, arbVars, callerVars>>

DetectorSpread ==
    /\ \E perp_price, spot_price \in Prices :
           spread_calc' = detector_spread(perp_price, spot_price)
    /\ UNCHANGED <<tplVars, spotVars, mcVars, histVars, slippage_ret, lateVars, cacheVars, hlVars, wsVars, arbVars, callerVars>>

\* One call of simulate_bridge_execution_monte_carlo; it waits for data_lock
\* when it asks the aggregator for the token's price data.
MonteCarlo(req) ==
    /\ data_lock = "free"
    /\ mc_ret' = simulate_bridge_execution_monte_carlo(req)
    /\ spread_calc' = mc_spread_bps(req)
    /\ UNCHANGED <<bridge_arbitrage_service, tplVars, spotVars, histVars, slippage_ret, lateVars, cacheVars, hlVars,
                   wsVars, arbVars, callerVars>>

\* app.py: bridge_service.arbitrage_service = arbitrage_service
AttachAggregator ==
    /\ bridge_arbitrage_service = "none"
    /\ bridge_arbitrage_service' = "attached"
    /\ UNCHANGED <<mc_ret, tplVars, spread_calc, spotVars, histVars, slippage_ret, lateVars, cacheVars, hlVars,
                   wsVars, arbVars, callerVars>>

\* Calls with price overrides, the other arguments fixed.
SimulateMonteCarlo ==
    \E jupiter_price \in PriceArgs, hyperliquid_price \in HlPriceArgs,
       funding_rate \in FundingArgs :
        MonteCarlo([token |-> "SOL", notional_usd |-> 1000, template |-> NoTemplate,
                    n_sims |-> 3, jupiter_price |-> jupiter_price,
                    hyperliquid_price |-> hyperliquid_price,
                    funding_rate |-> funding_rate])

\* Calls with any arguments.
MonteCarloStep == \E req \in McRequests : MonteCarlo(req)

NextMonteCarlo == MonteCarloStep \/ AttachAggregator

\* Calls without overrides, for a tracked token or an unknown one, while the
\* aggregator refreshes its prices.
SimulateFromAggregator ==
    \E token \in Tokens \cup {"INVALID"} :
        MonteCarlo([token |-> token, notional_usd |-> 1000, template |-> NoTemplate,
                    n_sims |-> 3, jupiter_price |-> NoArg, hyperliquid_price |-> NoArg,
                    funding_rate |-> NoArg])

NextMcPrices == Refresh \/ AttachAggregator \/ SimulateFromAggregator

\* "Keep only last 100 simulations in memory"
history_limit == 100

\* How many simulations are followed.
MaxCalls == 102

\* A history that keeps its oldest entries instead.
keep_first(history, limit) ==
    IF Len(history) > limit THEN SubSeq(history, 1, limit) ELSE history

\* if len(h) > limit: h = h[-limit:]
keep_last(history, limit) ==
    IF Len(history) > limit
    THEN SubSeq(history, Len(history) - limit + 1, Len(history))
    ELSE history

\* One call of simulate_bridge_execution without a template. A result is the
\* serial number of the completed simulation; a call that raises (the division
\* in _model_spread_decay) returns the error payload and stores nothing.
SimulateBridgeExecution ==
    /\ \E jupiter_price, hyperliquid_price \in Prices :
           LET spread_decay == model_spread_decay(jupiter_price, hyperliquid_price)
           IN  /\ spread_calc' = spread_decay
               /\ IF spread_decay.outcome = "error"
                  THEN UNCHANGED histVars
                  ELSE /\ sims_completed < MaxCalls
                       /\ sims_completed' = sims_completed + 1
                       /\ historical_simulations' =
                              keep_last(Append(historical_simulations, sims_completed + 1),
                                        history_limit)
    /\ UNCHANGED <<tplVars, spotVars, mcVars, slippage_ret, lateVars, cacheVars, hlVars, wsVars, arbVars, callerVars>>

\* ================================================== Execution templates
MaxTemplates == 4

default_templates ==
    <<[name |-> "SOL Scalping", token_pair |-> "SOL-USDC"],
      [name |-> "ETH Conservative", token_pair |-> "ETH-USDC"],
      [name |-> "BTC Large Size", token_pair |-> "BTC-USDC"]>>

\* What callers pass to save_execution_template: dictionaries ExecutionTemplate
\* accepts, and ones it rejects (a required field missing).
TemplateData ==
    [valid : BOOLEAN, name : {"SOL Scalping", "Custom"},
     token_pair : {"SOL-USDC", "JUP-USDC"}]

TemplateNames == {"SOL Scalping", "ETH Conservative", "BTC Large Size", "Custom"}

save_execution_template(template_data) ==
    IF template_data.valid
    THEN Append(execution_templates,
                [name |-> template_data.name, token_pair |-> template_data.token_pair])
    ELSE execution_templates

HasOtherName(t, template_name) == t.name /= template_name

delete_execution_template(template_name) ==
    LET keep(t) == HasOtherName(t, template_name)
    IN SelectSeq(execution_templates, keep)

\* What the two calls return (seq tells one call from the next).
NoTemplateCall == [op |-> "none", name |-> "", success |-> FALSE, seq |-> 0]

\* save_execution_template returns True unless ExecutionTemplate(**data) raised.
save_execution_template_ret(template_data) == template_data.valid

\* delete_execution_template returns True after the list was rebuilt, whether
\* or not a template had that name; the comprehension cannot raise.
delete_execution_template_ret(template_name) == TRUE

SaveExecutionTemplate ==
    /\ Len(execution_templates) < MaxTemplates
    /\ \E template_data \in TemplateData :
           /\ execution_templates' = save_execution_template(template_data)
           /\ template_ret' = [op |-> "save", name |-> template_data.name,
                               success |-> save_execution_template_ret(template_data),
                               seq |-> 1 - template_ret.seq]
    /\ UNCHANGED <<spread_calc, spotVars, mcVars, histVars, slippage_ret, lateVars, cacheVars, hlVars, wsVars, arbVars, callerVars>>

DeleteExecutionTemplate ==
    /\ \E template_name \in TemplateNames :
           /\ execution_templates' = delete_execution_template(template_name)
           /\ template_ret' = [op |-> "delete", name |-> template_name,
                               success |-> delete_execution_template_ret(template_name),
                               seq |-> 1 - template_ret.seq]
    /\ UNCHANGED <<spread_calc, spotVars, mcVars, histVars, slippage_ret, lateVars, cacheVars, hlVars, wsVars, arbVars, callerVars>>

InitBridge ==
    /\ execution_templates = default_templates
    /\ template_ret = NoTemplateCall
    /\ spread_calc = NoCalc
    /\ bridge_arbitrage_service = "none"
    /\ mc_ret = NoMc
    /\ historical_simulations = <<>>
    /\ sims_completed = 0

NextBridge ==
    \/ CalculateSpreadBps
    \/ ProcessL1Book
    \/ DetectorSpread
    \/ SimulateMonteCarlo
    \/ SimulateBridgeExecution

NextTemplates == SaveExecutionTemplate \/ DeleteExecutionTemplate

\* Only simulate_bridge_execution is called.
NextHistory == SimulateBridgeExecution

\* ======================================== The spot side, on more tokens
\* update_all_prices' spot side and the merge of its quotes, run on the first
\* NumSpotTokens supported tokens: enough for a source to quote some but
\* fewer than half of them, and for three quotes to be present or not.
NumSpotTokens == 4
SpotTokens == {all_supported_tokens[i] : i \in 1..NumSpotTokens}

NoSpotCall == [called |-> FALSE, primary |-> RaisedOn(SpotTokens),
               result |-> [abort |-> FALSE,
                           jupiter_prices |-> [t \in SpotTokens |-> NoLeg],
                           fetched |-> [t \in SpotTokens |-> NoLeg],
                           asked |-> <<>>]]

SpotSide(jo, fo, fo2) ==
    LET r == spot_side_on(SpotTokens, jo, fo, fo2)
    IN /\ spot_call' = [called |-> TRUE, primary |-> jo, result |-> r]
       /\ spot_quotes' = IF r.abort THEN spot_quotes
                         ELSE Overlay(spot_quotes, r.jupiter_prices)
       /\ UNCHANGED <<tplVars, spread_calc, mcVars, histVars, slippage_ret, lateVars, cacheVars, hlVars, wsVars,
                      arbVars, callerVars>>

SpotSideStep ==
    \E jo \in JupOutcomesOn(SpotTokens) :
        IF jo.raised
        THEN \E fo2 \in FbOutcomesOn(SpotTokens, SpotTokens) :
                SpotSide(jo, RaisedOn(SpotTokens), fo2)
        ELSE IF Cardinality(KeysOf(jo.prices)) < NumSpotTokens \div 2
        THEN \E fo \in FbOutcomesOn(SpotTokens, SpotTokens \ KeysOf(jo.prices)) :
                IF fo.raised
                THEN \E fo2 \in FbOutcomesOn(SpotTokens, SpotTokens) : SpotSide(jo, fo, fo2)
                ELSE SpotSide(jo, fo, RaisedOn(SpotTokens))
        ELSE SpotSide(jo, RaisedOn(SpotTokens), RaisedOn(SpotTokens))

InitSpot ==
    /\ spot_call = NoSpotCall
    /\ spot_quotes = [t \in SpotTokens |-> NoLeg]

\* ================================================== Slippage model
\* Slippage figures are fractions in millionths (0.05 is 50000), which is also
\* basis points in hundredths; k and the volatility factors are in hundredths;
\* notional / adv is kept in units of 1e-8 and its square root in units of 1e-4.

\* SlippageConfig
k_sqrt == 70
min_slippage_bps == 50
max_slippage_bps == 50000

\* "using default" when adv_usd <= 0
default_adv_usd == 10000000

\* return 0.005 of the except clause
slippage_fallback == 5000

\* assertAlmostEqual(..., places=4) of the tests: a difference below 0.00005
places_4 == 50

RateUnit == 10 ^ 8

\* _load_token_configs (the two fields estimate_slippage_by_notional reads)
token_configs ==
    [SOL  |-> [typical_adv_usd |-> 100000000,  volatility_factor |-> 120],
     ETH  |-> [typical_adv_usd |-> 500000000,  volatility_factor |-> 100],
     BTC  |-> [typical_adv_usd |-> 1000000000, volatility_factor |-> 90],
     USDC |-> [typical_adv_usd |-> 200000000,  volatility_factor |-> 10],
     USDT |-> [typical_adv_usd |-> 300000000,  volatility_factor |-> 10]]

Max(a, b) == IF a > b THEN a ELSE b

\* The largest r in lo..hi-1 with r * r <= x, for lo * lo <= x < hi * hi.
RECURSIVE sqrt_between(_, _, _)
sqrt_between(lo, hi, x) ==
    IF hi - lo <= 1 THEN lo
    ELSE LET mid == (lo + hi) \div 2
         IN  IF mid * mid <= x THEN sqrt_between(mid, hi, x)
             ELSE sqrt_between(lo, mid, x)

\* math.sqrt of a rate in units of 1e-8, in units of 1e-4
math_sqrt(x) == sqrt_between(0, 46340, x)

\* notional_usd / adv_usd in units of 1e-8
participation_rate(notional_usd, adv_usd) ==
    IF adv_usd <= RateUnit
    THEN notional_usd * (RateUnit \div adv_usd)
    ELSE notional_usd \div (adv_usd \div RateUnit)

\* Bounds that leave out the cap.
floor_only(slippage_bps) ==
    IF slippage_bps < min_slippage_bps THEN min_slippage_bps ELSE slippage_bps

\* "Apply reasonable bounds": the if / elif on slippage_bps
apply_bounds(slippage_bps) ==
    IF slippage_bps < min_slippage_bps
    THEN Max(slippage_bps, min_slippage_bps)
    ELSE IF slippage_bps > max_slippage_bps
         THEN Min(slippage_bps, max_slippage_bps)
         ELSE slippage_bps

NoToken == ""
SlipTokens == {NoToken, "SOL", "BTC", "DOGE"}
SlipNotionals == {-1000, 0, 1, 100, 1000, 10000, 50000, 100000, 1000000, 10000000}
AdvValues == {0, 1000000, 2000000, 100000000}
KArgs == {NoArg} \cup {[given |-> TRUE, v |-> k] : k \in {-50, 0, 120}}
SlippageRequests ==
    [notional_usd : SlipNotionals, adv_usd : AdvValues, k : KArgs, token : SlipTokens]

\* k or self.config.k_sqrt, times the token's volatility factor
k_effective(req) ==
    LET k == IF req.k.given /\ req.k.v /= 0 THEN req.k.v ELSE k_sqrt
    IN  IF req.token \in DOMAIN token_configs
        THEN (k * token_configs[req.token].volatility_factor) \div 100
        ELSE k

\* adv_usd after the token's typical volume and the division-by-zero guard
adv_effective(req) ==
    LET adv == IF req.token \in DOMAIN token_configs
               THEN Max(req.adv_usd, token_configs[req.token].typical_adv_usd)
               ELSE req.adv_usd
    IN  IF adv <= 0 THEN default_adv_usd ELSE adv

\* slippage_pct before the bounds: k * sqrt(notional / adv)
slippage_pct(req) ==
    k_effective(req) * math_sqrt(participation_rate(req.notional_usd, adv_effective(req)))

\* SlippageModel.estimate_slippage_by_notional; math.sqrt raises on a negative
\* rate and the except clause answers the fallback.
estimate_slippage_by_notional(req) ==
    IF participation_rate(req.notional_usd, adv_effective(req)) < 0
    THEN slippage_fallback
    ELSE apply_bounds(slippage_pct(req))

NoSlippage == [kind |-> "none"]

EstimateSlippageByNotional ==
    /\ \E req \in SlippageRequests :
           slippage_ret' = [kind |-> "value", req |-> req,
                            result |-> estimate_slippage_by_notional(req)]
    /\ UNCHANGED <<tplVars, spread_calc, spotVars, mcVars, histVars, lateVars, cacheVars,
                   hlVars, wsVars, arbVars, callerVars>>

InitSlippage == slippage_ret = NoSlippage

NextSlippage == EstimateSlippageByNotional

\* ================================================== Depth-based execution
\* Prices and sizes are whole numbers; the average execution price is kept in
\* hundredths and a slippage in basis points (0.20 is 2000).

MaxLevels == 2

\* "Cap at 20%"
depth_slippage_cap == 2000

\* "10% penalty per unfilled portion"
partial_fill_penalty == 1000

\* return ..., 0.01 for an empty book and ..., 0.05 when nothing executes
empty_depth_slippage == 100
no_execution_slippage == 500

\* current_price or 100.0
depth_fallback_price == 100

LevelPrices == {101, 102, 130}
LevelSizes == {50, 120}
Levels == [price : LevelPrices, size : LevelSizes]
Books == UNION {[1..n -> Levels] : n \in 0..MaxLevels}
DepthSizes == {100}
Sides == {"buy", "sell"}
CurrentPrices == {NoArg, [given |-> TRUE, v |-> 100]}
DepthRequests ==
    [size_token : DepthSizes, depth : Books, side : Sides, current_price : CurrentPrices]

\* Where sorted() puts a level in an already sorted list: after the levels
\* that go before it or compare equal (the sort is stable).
RECURSIVE insert_level(_, _, _)
insert_level(level, sorted, side) ==
    IF sorted = <<>> THEN <<level>>
    ELSE IF (side = "buy" /\ level.price < Head(sorted).price)
             \/ (side /= "buy" /\ level.price > Head(sorted).price)
         THEN <<level>> \o sorted
         ELSE <<Head(sorted)>> \o insert_level(level, Tail(sorted), side)

\* sorted(levels, key=price), reversed for a sell
RECURSIVE sorted_levels(_, _)
sorted_levels(levels, side) ==
    IF levels = <<>> THEN <<>>
    ELSE insert_level(levels[Len(levels)],
                      sorted_levels(SubSeq(levels, 1, Len(levels) - 1), side), side)

\* A walk that takes every level whole while something remains.
RECURSIVE take_whole_levels(_, _)
take_whole_levels(levels, remaining_size) ==
    IF levels = <<>> THEN <<>>
    ELSE IF remaining_size <= 0
         THEN <<0>> \o take_whole_levels(Tail(levels), remaining_size)
         ELSE <<Head(levels).size>> \o
              take_whole_levels(Tail(levels), remaining_size - Head(levels).size)

\* The loop over the levels: executed_at_level of each, 0 after the break.
RECURSIVE walk_levels(_, _)
walk_levels(levels, remaining_size) ==
    IF levels = <<>> THEN <<>>
    ELSE IF remaining_size <= 0
         THEN <<0>> \o walk_levels(Tail(levels), remaining_size)
         ELSE LET executed_at_level == Min(remaining_size, Head(levels).size)
              IN  <<executed_at_level>> \o
                  walk_levels(Tail(levels), remaining_size - executed_at_level)

RECURSIVE SumSeq(_)
SumSeq(seq) == IF seq = <<>> THEN 0 ELSE Head(seq) + SumSeq(Tail(seq))

\* max(0.0, min(abs(slippage_pct), 0.20)), and then slippage_pct += penalty
cap_then_penalty(pct, penalty) ==
    Max(0, Min(Abs(pct), depth_slippage_cap)) + penalty

\* SlippageModel.estimate_execution_price_from_depth for a list of levels
estimate_execution_price_from_depth(req) ==
    LET levels == sorted_levels(req.depth, req.side)
        fills == walk_levels(levels, req.size_token)
        total_executed == SumSeq(fills)
        total_cost == SumSeq([i \in 1..Len(levels) |-> fills[i] * levels[i].price])
        remaining_size == req.size_token - total_executed
        current_price == req.current_price.v
        fallback == IF req.current_price.given /\ current_price /= 0
                    THEN current_price ELSE depth_fallback_price
        reference == IF req.current_price.given /\ current_price > 0
                     THEN current_price ELSE levels[1].price
        signed_cost == IF req.current_price.given /\ current_price > 0 /\ req.side /= "buy"
                       THEN reference * total_executed - total_cost
                       ELSE total_cost - reference * total_executed
        \* (avg - reference) / reference in basis points, rounded toward zero
        raw_slippage == IF signed_cost >= 0
                        THEN (signed_cost * 10000) \div (reference * total_executed)
                        ELSE -(((-signed_cost) * 10000) \div (reference * total_executed))
        penalty == IF remaining_size > 0
                   THEN (remaining_size * partial_fill_penalty) \div req.size_token
                   ELSE 0
    IN  IF levels = <<>>
        THEN [outcome |-> "empty", levels |-> levels, fills |-> fills,
              total_cost |-> 0, total_executed |-> 0,
              executed_price |-> fallback * 100, slippage_pct |-> empty_depth_slippage]
        ELSE IF total_executed = 0
        THEN [outcome |-> "no_execution", levels |-> levels, fills |-> fills,
              total_cost |-> 0, total_executed |-> 0,
              executed_price |-> fallback * 100, slippage_pct |-> no_execution_slippage]
        ELSE [outcome |-> IF remaining_size > 0 THEN "partial" ELSE "filled",
              levels |-> levels, fills |-> fills,
              total_cost |-> total_cost, total_executed |-> total_executed,
              executed_price |-> (total_cost * 100) \div total_executed,
              slippage_pct |-> cap_then_penalty(raw_slippage, penalty)]

NoDepthCall == [kind |-> "none"]

EstimateExecutionPriceFromDepth ==
    /\ \E req \in DepthRequests :
           depth_ret' = [kind |-> "value", req |-> req,
                         result |-> estimate_execution_price_from_depth(req)]
    /\ UNCHANGED <<priorVars, combined_ret, pollVars, fetchVars>>

\* ================================================== Combined estimate
\* Almgren-Chriss parameters of SlippageConfig, in hundredths
a_coeff == 30

\* "1bp to 10%": max(0.1, min(impact_bps, 1000.0)), in millionths
min_impact_bps == 10
max_impact_bps == 100000

\* return 0.003 of estimate_almgren_chriss_impact's except clause
impact_fallback == 3000

\* results['recommended'] = 0.01 when no estimator ran
recommended_fallback == 10000

\* The weights of the three methods, in tenths
weight_sqrt_model == 4
weight_almgren_chriss == 3
weight_depth_based == 3

\* volume_ratio ** b_power for b_power = 0.6, in millionths, for the ratios
\* (in units of 1e-8) the calls below produce: 0.01 and 0.0001
pow_b_power(volume_ratio) ==
    IF volume_ratio = 1000000 THEN 63096
    ELSE IF volume_ratio = 10000 THEN 3981
    ELSE 0

\* SlippageModel.estimate_almgren_chriss_impact(notional, daily_vol, token=token)
estimate_almgren_chriss_impact(notional_usd, daily_vol_usd, token) ==
    LET a_effective == IF token \in DOMAIN token_configs
                       THEN (a_coeff * token_configs[token].volatility_factor) \div 100
                       ELSE a_coeff
        impact_pct == (a_effective * pow_b_power(participation_rate(notional_usd, daily_vol_usd)))
                      \div 100
    IN  Max(min_impact_bps, Min(impact_pct, max_impact_bps))

CombinedNotional == 10000
CombinedAdvs == {NoArg} \cup {[given |-> TRUE, v |-> adv] : adv \in {0, 1000000, 100000000}}
CombinedDepths == {[given |-> FALSE, v |-> <<>>]} \cup {[given |-> TRUE, v |-> book] : book \in
                      {<<>>} \cup {<<level>> : level \in Levels}}
CombinedPrices == {NoArg} \cup {[given |-> TRUE, v |-> p] : p \in {100, 101}}
CombinedRequests ==
    [notional_usd : {CombinedNotional}, token : {"SOL", "DOGE"}, adv_usd : CombinedAdvs,
     depth : CombinedDepths, current_price : CombinedPrices]

\* The estimators estimate_combined_slippage runs, and what each returned
\* (millionths).
combined_results(req) ==
    LET with_adv == req.adv_usd.given /\ req.adv_usd.v /= 0
        with_depth == /\ req.depth.given /\ req.depth.v /= <<>>
                      /\ req.current_price.given /\ req.current_price.v /= 0
        sqrt_model ==
            estimate_slippage_by_notional(
                [notional_usd |-> req.notional_usd, adv_usd |-> req.adv_usd.v,
                 k |-> NoArg, token |-> req.token])
        almgren_chriss ==
            estimate_almgren_chriss_impact(req.notional_usd, req.adv_usd.v, req.token)
        depth_based ==
            estimate_execution_price_from_depth(
                [size_token |-> req.notional_usd \div req.current_price.v,
                 depth |-> req.depth.v, side |-> "buy",
                 current_price |-> req.current_price]).slippage_pct * 100
    IN  [sqrt_model |-> [ran |-> with_adv, v |-> IF with_adv THEN sqrt_model ELSE 0],
         almgren_chriss |-> [ran |-> with_adv, v |-> IF with_adv THEN almgren_chriss ELSE 0],
         depth_based |-> [ran |-> with_depth, v |-> IF with_depth THEN depth_based ELSE 0]]

\* weighted_sum / total_weight over the methods that ran
weighted_average(results) ==
    LET weight(ran, w) == IF ran THEN w ELSE 0
        total_weight == weight(results.sqrt_model.ran, weight_sqrt_model)
                        + weight(results.almgren_chriss.ran, weight_almgren_chriss)
                        + weight(results.depth_based.ran, weight_depth_based)
        weighted_sum == results.sqrt_model.v * weight_sqrt_model
                        + results.almgren_chriss.v * weight_almgren_chriss
                        + results.depth_based.v * weight_depth_based
    IN  IF total_weight > 0 THEN weighted_sum \div total_weight ELSE recommended_fallback

\* SlippageModel.estimate_combined_slippage: its 'recommended' entry
estimate_combined_slippage(req) ==
    LET results == combined_results(req)
    IN  [results |-> results, recommended |-> weighted_average(results)]

NoCombinedCall == [kind |-> "none"]

EstimateCombinedSlippage ==
    /\ \E req \in CombinedRequests :
           combined_ret' = [kind |-> "value", req |-> req,
                            result |-> estimate_combined_slippage(req)]
    /\ UNCHANGED <<priorVars, depth_ret, pollVars, fetchVars>>

NextCombined == EstimateCombinedSlippage

\* ====================================================== PollingService
\* _polling_loop: "time.sleep(10)  # Poll every 10 seconds"
poll_interval == 10
\* stop(): "self.thread.join(timeout=5)"
join_timeout == 5

\* How many threads start() may create.
MaxThreads == 3

ThreadIds == 1..Len(polling_threads)

\* Thread.is_alive()
is_alive(i) == polling_threads[i].pc \in {"ready", "sleep"}

\* time.sleep's remaining time after dt seconds
sleep_on(th, dt) == IF th.pc = "sleep" THEN [th EXCEPT !.left = Max(@ - dt, 0)] ELSE th

\* What join(timeout) waits for: the thread's remaining sleep or the timeout,
\* whichever is shorter; nothing for a thread that is at its while condition
\* or has ended.
join_wait(th) == IF th.pc = "sleep" THEN Min(th.left, join_timeout) ELSE 0

\* PollingService.start(); a call while running is True returns at once.
PollingStart ==
    /\ ~polling_running
    /\ Len(polling_threads) < MaxThreads
    /\ polling_running' = TRUE
    /\ polling_threads' = Append(polling_threads, [pc |-> "ready", left |-> 0, epoch |-> 0])
    /\ polling_thread' = Len(polling_threads) + 1
    /\ UNCHANGED <<priorVars, depth_ret, combined_ret, fetchVars>>

\* PollingService.stop(); a call while running is False returns at once.
\* running is cleared, then the caller joins self.thread for at most
\* join_timeout seconds: a thread at its while condition, or whose sleep ends
\* within the timeout, sees running = False and ends; a thread with more sleep
\* left is still asleep when join gives up. The time joined passes for every
\* sleeping thread.
PollingStop ==
    /\ polling_running
    /\ polling_running' = FALSE
    /\ LET th == polling_threads[polling_thread]
           waited == IF is_alive(polling_thread) THEN join_wait(th) ELSE 0
       IN polling_threads' =
            [i \in ThreadIds |->
                IF i = polling_thread /\ is_alive(i)
                   /\ (th.pc = "ready" \/ th.left <= waited)
                THEN [th EXCEPT !.pc = "done", !.left = 0]
                ELSE sleep_on(polling_threads[i], waited)]
    /\ UNCHANGED <<polling_thread, priorVars, depth_ret, combined_ret, fetchVars>>

\* _polling_loop, one evaluation of "while self.running": poll_all_data() (a
\* placeholder that cannot raise) and the start of the sleep, or the end of
\* the thread. epoch records during which start's run the thread last polled.
PollingIterate(i) ==
    /\ polling_threads[i].pc = "ready"
    /\ polling_threads' =
            [polling_threads EXCEPT ![i] =
                IF polling_running
                THEN [pc |-> "sleep", left |-> poll_interval, epoch |-> Len(polling_threads)]
                ELSE [@ EXCEPT !.pc = "done"]]
    /\ UNCHANGED <<polling_running, polling_thread, priorVars, depth_ret, combined_ret, fetchVars>>

\* time.sleep(10) returns
PollingWake(i) ==
    /\ polling_threads[i].pc = "sleep"
    /\ polling_threads[i].left = 0
    /\ polling_threads' = [polling_threads EXCEPT ![i].pc = "ready"]
    /\ UNCHANGED <<polling_running, polling_thread, priorVars, depth_ret, combined_ret, fetchVars>>

\* One second passes for the sleeping threads.
PollingTick ==
    /\ \E i \in ThreadIds : polling_threads[i].pc = "sleep" /\ polling_threads[i].left > 0
    /\ polling_threads' = [i \in ThreadIds |-> sleep_on(polling_threads[i], 1)]
    /\ UNCHANGED <<polling_running, polling_thread, priorVars, depth_ret, combined_ret, fetchVars>>

PollingIterateStep == \E i \in ThreadIds : PollingIterate(i)
PollingWakeStep == \E i \in ThreadIds : PollingWake(i)

NextPolling ==
    \/ PollingStart
    \/ PollingStop
    \/ PollingIterateStep
    \/ PollingWakeStep
    \/ PollingTick

\* ================================================ EnhancedPriceFetcher
\* Times are in half seconds. CacheConfig: retry_backoff_base 0.5 s,
\* retry_backoff_max 30 s, default_ttl 5 s.
retry_backoff_base == 1
retry_backoff_max == 60
cache_config_default_ttl == 10

\* The largest power of two a Python float holds is 2^1023: converting the
\* int 2 ** 1024 to float raises OverflowError.
float_max_exp == 1024

\* How many consecutive failures of the service are followed.
MaxFailures == 1026

\* "service not in self.retry_state"; next_retry_in is next_retry_time minus
\* the current time, or 0 once that time has come.
NoRetryState == [present |-> FALSE, failures |-> 0, next_retry_in |-> 0]

\* BackoffRetryManager.should_retry
should_retry == ~retry_state.present \/ retry_state.next_retry_in <= 0

\* record_failure's "retry_backoff_base * (2 ** (failures - 1))" cannot be
\* computed: the int is too large to convert to float.
backoff_overflows(failures) == failures - 1 >= float_max_exp

\* record_failure's delay. From 2^7 on the product exceeds retry_backoff_max,
\* so the exponent is cut at 20 to stay within the integers of the checker.
backoff_delay(failures) ==
    Min(retry_backoff_base * 2 ^ Min(failures - 1, 20), retry_backoff_max)

\* BackoffRetryManager.record_failure applied to state st: the entry is
\* created if missing, failures is incremented, and next_retry_time is set
\* unless computing the delay raised.
record_failure(st) ==
    LET cur == IF st.present THEN st
               ELSE [present |-> TRUE, failures |-> 0, next_retry_in |-> 0]
        failures == cur.failures + 1
    IN IF backoff_overflows(failures)
       THEN [state |-> [cur EXCEPT !.failures = failures], raised |-> TRUE]
       ELSE [state |-> [cur EXCEPT !.failures = failures,
                                   !.next_retry_in = backoff_delay(failures)],
             raised |-> FALSE]

\* What fetch_with_cache does with a fetch function that returned nothing
\* ("empty": record_failure in the try block, and once more in the except
\* clause if the first raised) or raised ("raise": record_failure in the
\* except clause).
failed_fetch(st, result) ==
    LET first == record_failure(st)
    IN IF result = "empty" /\ first.raised THEN record_failure(first.state) ELSE first

NoFetch == [op |-> "none", hit |-> FALSE, invoked |-> FALSE, wait_before |-> 0,
            result |-> "none", streak |-> 0]

\* EnhancedPriceFetcher.fetch_with_cache for one service and endpoint.
\* result: what the fetch function would do; cache_fault: Redis fails during
\* this call (get_cached_data and cache_data swallow it). streak counts the
\* consecutive invocations of the fetch function that failed.
FetchWithCache(force_refresh, result, cache_fault) ==
    /\ retry_state.failures < MaxFailures
    /\ LET hit == ~force_refresh /\ fetch_cached > 0 /\ ~cache_fault
           call == [op |-> "none", hit |-> hit, invoked |-> FALSE,
                    wait_before |-> IF retry_state.present THEN retry_state.next_retry_in
                                    ELSE 0,
                    result |-> result, streak |-> fetch_ret.streak]
       IN IF hit
          THEN /\ fetch_ret' = [call EXCEPT !.op = "cached"]
               /\ UNCHANGED <<retry_state, fetch_cached>>
          ELSE IF ~should_retry
          THEN /\ fetch_ret' = [call EXCEPT !.op = "None"]
               /\ UNCHANGED <<retry_state, fetch_cached>>
          ELSE IF result = "data"
          THEN /\ fetch_ret' = [call EXCEPT !.op = "data", !.invoked = TRUE, !.streak = 0]
               /\ retry_state' = NoRetryState
               /\ fetch_cached' = IF cache_fault THEN fetch_cached
                                  ELSE cache_config_default_ttl
          ELSE LET failure == failed_fetch(retry_state, result)
               IN /\ fetch_ret' = [call EXCEPT !.op = IF failure.raised THEN "raise"
                                                     ELSE "None",
                                               !.invoked = TRUE, !.streak = @ + 1]
                  /\ retry_state' = failure.state
                  /\ UNCHANGED fetch_cached
    /\ UNCHANGED <<priorVars, depth_ret, combined_ret, pollVars>>

\* Time passes: up to just before the retry time, up to the retry time, or
\* (with no retry pending) for as long as a cache entry lives.
FetchPassTime(dt) ==
    /\ dt > 0
    /\ retry_state' = IF retry_state.present
                      THEN [retry_state EXCEPT !.next_retry_in = Max(@ - dt, 0)]
                      ELSE retry_state
    /\ fetch_cached' = Max(fetch_cached - dt, 0)
    /\ fetch_ret' = [NoFetch EXCEPT !.streak = fetch_ret.streak]
    /\ UNCHANGED <<priorVars, depth_ret, combined_ret, pollVars>>

FetchWithCacheStep ==
    \E force_refresh \in BOOLEAN, result \in {"data", "empty", "raise"},
       cache_fault \in BOOLEAN :
        FetchWithCache(force_refresh, result, cache_fault)

FetchPassTimeStep ==
    \E dt \in {retry_state.next_retry_in - 1, retry_state.next_retry_in,
               cache_config_default_ttl} :
        /\ (retry_state.next_retry_in = 0 \/ dt <= retry_state.next_retry_in)
        /\ FetchPassTime(dt)

NextFetcher == FetchWithCacheStep \/ FetchPassTimeStep

InitLate ==
    /\ depth_ret = NoDepthCall
    /\ combined_ret = NoCombinedCall
    /\ polling_running = FALSE
    /\ polling_thread = 0
    /\ polling_threads = <<>>
    /\ retry_state = NoRetryState
    /\ fetch_cached = 0
    /\ fetch_ret = NoFetch

NextDepth == EstimateExecutionPriceFromDepth

Init == InitCache /\ InitHl /\ InitWs /\ InitArb /\ InitBridge /\ InitSpot /\ InitSlippage
        /\ InitLate

SpecCache == Init /\ [][NextCache]_vars

SpecWs == Init /\ [][NextWs]_vars
SpecStream == Init /\ [][NextStream]_vars
SpecPolling == Init /\ [][NextPolling]_vars
SpecFetcher == Init /\ [][NextFetcher]_vars

\* Refresh cycles of the aggregator while the stream delivers mark prices.
NextStreamRefresh ==
    \/ EnableWebsocketStreaming
    \/ WsStart
    \/ WsConnectAttempt
    \/ WsConnectOk
    \/ WsAllMidsStep
    \/ Refresh

SpecStreamRefresh == Init /\ [][NextStreamRefresh]_vars

SpecArb == Init /\ [][NextArb]_vars

SpecSnap == Init /\ [][NextSnap]_vars

SpecApi == Init /\ [][NextApi]_vars

SpecRefresh == Init /\ [][Refresh]_vars

SpecBridge == Init /\ [][NextBridge]_vars

SpecTemplates == Init /\ [][NextTemplates]_vars
SpecHistory == Init /\ [][NextHistory]_vars
SpecSlippage == Init /\ [][NextSlippage]_vars
SpecDepth == Init /\ [][NextDepth]_vars
SpecCombined == Init /\ [][NextCombined]_vars

SpecMonteCarlo == Init /\ [][NextMonteCarlo]_vars

SpecMcPrices == Init /\ [][NextMcPrices]_vars

\* Refresh cycles with the clock advancing between them (a cycle is short
\* against the pause its caller makes before the next one).
TickBetweenCycles == refresh_pc = "idle" /\ Tick

NextTimed == Refresh \/ TickBetweenCycles

SpecTimed == Init /\ [][NextTimed]_vars

SpecSpot == Init /\ [][SpotSideStep]_vars

\* The event loop runs the connect() coroutine: a pending connect resolves
\* (websockets.connect is bounded by its timeouts), a sleep ends, the while
\* condition is evaluated. Nothing obliges the server to close a connection.
WsLoopStep == WsConnectAttempt \/ WsLoopExit \/ WsConnectOk \/ WsConnectFail \/ WsWake
FairSpecWs == SpecWs /\ WF_vars(WsLoopStep)

\* The background thread, once started, runs: a started thread is scheduled.
FairSpecListener == SpecWs /\ WF_vars(RunListener) /\ WF_vars(WsLoopStep)

\* ------------------------------------------------------------------ claims
\* C1: after set(key, value, ttl) has returned and before ttl seconds have
\* elapsed, get(key) returns value, with the remote tier connected and in
\* local-only mode alike (no Redis fault during the get).
C1_GetReturnsSetValue ==
    (/\ cache_ret.op = "get"
     /\ ~cache_ret.fault
     /\ last_set[cache_ret.key].set
     /\ now < last_set[cache_ret.key].at + last_set[cache_ret.key].ttl)
    => cache_ret.val = last_set[cache_ret.key].val

\* The listener's terminal Failed state: the reconnect budget is used up.
WsFailed ==
    ws_pc = "done" /\ ~running /\ reconnect_attempts >= max_reconnect_attempts

\* C2: once the listener is Failed, every later get_websocket_prices call (the
\* first step of each refresh cycle) reads the polling path, not ws_data.
C2_FailedListenerUsesPolling ==
    [][(WsFailed /\ hl_ret'.seq /= hl_ret.seq) => hl_ret'.origin = "rest"]_vars

\* C3: the number of failed attempts in a row against one endpoint never
\* exceeds max_reconnect_attempts; a connect() that is not connected always
\* ends up connected or stopped for good (running = False), which, when
\* every attempt fails, is the Failed state; once connect() has returned no
\* further connection attempt is made.
C3_BoundedThenFailed ==
    /\ [](ep_fails <= max_reconnect_attempts)
    /\ []((ws_pc = "done" /\ reconnect_attempts >= max_reconnect_attempts) => ~running)
    /\ [][ws_pc = "done" => ws_pc' = "done"]_vars
    /\ (ws_pc \in {"loop", "connecting", "sleeping"})
          ~> (ws_pc = "listening" \/ (ws_pc = "done" /\ ~running))

\* Every attempt failed, from connect()'s first: 4 against mainnet, 9 against
\* testnet, 12 sleeps, then Failed.
C3_Witness ==
    WsFailed /\ use_testnet_fallback /\ ep_fails = 9 /\ Len(sleep_log) = 12

\* C4: the delays slept since connect() began or last connected never
\* decrease and never exceed max_delay, and the first of them is base_delay.
C4_BackoffMonotoneCapped ==
    /\ \A i \in 1..Len(sleep_log) : sleep_log[i] <= max_delay
    /\ \A i \in 1..(Len(sleep_log) - 1) : sleep_log[i] <= sleep_log[i + 1]
    /\ Len(sleep_log) >= 1 => sleep_log[1] = base_delay

\* The cap is reached and slept twice, in a run of failures that began after
\* a successful connection to testnet (the counter went 0, 1, 2, 3, 4, ...).
C4_Witness ==
    /\ ws_pc = "sleeping" /\ use_testnet_fallback
    /\ Len(sleep_log) >= 8
    /\ sleep_log[1] = base_delay
    /\ sleep_log[7] = max_delay /\ sleep_log[8] = max_delay
    /\ att_log[1] = 0 /\ att_log[5] = 4

\* C5 as stated: every delay slept is min(base_delay * 2^a, max_delay), a
\* being reconnect_attempts when the failure occurred.
C5_DelayFromAttemptCounter ==
    \A i \in 1..Len(sleep_log) :
        sleep_log[i] = Min(base_delay * 2 ^ att_log[i], max_delay)

\* C5 amended: the i-th delay slept since connect() began or last connected
\* is min(base_delay * 2^(i-1), max_delay); reconnect_attempts at that
\* failure is i-1 until the endpoint switch resets it, after which it lags
\* by the switch threshold.
C5_DelayFromFailureCount ==
    \A i \in 1..Len(sleep_log) :
        /\ sleep_log[i] = Min(base_delay * 2 ^ (i - 1), max_delay)
        /\ \/ att_log[i] = i - 1
           \/ use_testnet_fallback /\ att_log[i] = i - 1 - fallback_after_attempts

\* A sleep after the endpoint switch: the counter was 1, the delay 16.
C5_Witness ==
    /\ ws_pc = "sleeping" /\ use_testnet_fallback
    /\ Len(sleep_log) = 5 /\ att_log[5] = 1 /\ sleep_log[5] = 16

\* C6: four failed attempts in a row against mainnet switch the listener to
\* testnet, and the first attempt against testnet is made with
\* reconnect_attempts = 0.
C6_SwitchResetsCounter ==
    /\ ~use_testnet_fallback => ep_fails < 4
    /\ (ws_pc = "connecting" /\ use_testnet_fallback /\ ep_attempts = 1)
          => reconnect_attempts = 0

\* C7 (get_price_data): what a get_price_data call returned is a snapshot
\* that no later refresh alters.
C7_PriceSnapshotIsolated ==
    pd_snap.kind /= "none" => ~pd_snap.altered

\* C8: get_price_data never waits for network I/O: no caller is blocked in it
\* while a refresh cycle is inside a network fetch.
C8_ReaderNeverWaitsOnFetch ==
    ~(gpd_pc.st = "blocked" /\ RefreshInNetworkIO)

\* C9: every write to the price map, the opportunity map or the history is
\* made while update_all_prices holds data_lock, and every read of the
\* opportunity map by simulate_arbitrage_trade sees it wholly before or
\* wholly after a refresh, never partly rewritten.
C9_LockedWritesWholeReads ==
    /\ [][(\/ price_data' /= price_data
           \/ arbitrage_opportunities' /= arbitrage_opportunities
           \/ historical_data' /= historical_data) => data_lock = "refresh"]_vars
    /\ [](sim_ret.op /= "none" => ~sim_ret.partial)

\* C10: after a refresh cycle, a token whose perp and spot prices are both
\* positive has an opportunity entry exactly when |(perp - spot) / spot * 100|
\* is at least 0.3, the spread being taken on the prices as they stand.
C10_OpportunityIffThreshold ==
    refresh_pc = "idle" =>
        \A t \in Tokens :
            LET perp == price_data[t].hyperliquid.price
                spot == price_data[t].jupiter.price
            IN (/\ price_data[t].hyperliquid.present
                /\ price_data[t].jupiter.present
                /\ perp > 0 /\ spot > 0)
               => (arbitrage_opportunities[t].present
                     <=> Abs(perp - spot) * 1000 >= 3 * spot)

\* C10 witness: a finished cycle left one token with an entry at exactly
\* 0.3 % and another, both prices positive and different, without one.
C10_Witness ==
    /\ refresh_pc = "idle"
    /\ historical_data.present
    /\ \E t, u \in Tokens :
        /\ arbitrage_opportunities[t].present
        /\ Abs(price_data[t].hyperliquid.price - price_data[t].jupiter.price) * 1000
             = 3 * price_data[t].jupiter.price
        /\ ~arbitrage_opportunities[u].present
        /\ price_data[u].jupiter.price > 0
        /\ price_data[u].hyperliquid.price > 0
        /\ price_data[u].hyperliquid.price /= price_data[u].jupiter.price

\* Alphabetical rank of the tracked token names.
NameRank(t) ==
    CASE t = "BONK" -> 1 [] t = "ETH" -> 2 [] t = "HL" -> 3 [] t = "JUP" -> 4
      [] t = "ORCA" -> 5 [] t = "SOL" -> 6 [] t = "USDC" -> 7 [] OTHER -> 8

\* C11: the list get_arbitrage_opportunities returned is sorted by descending
\* absolute spread, and entries of equal absolute spread are in token-name
\* order.
C11_SortedTiesByName ==
    \A i, j \in 1..Len(api_opps.list) :
        i < j =>
            \/ api_opps.list[i].spread_abs > api_opps.list[j].spread_abs
            \/ /\ api_opps.list[i].spread_abs = api_opps.list[j].spread_abs
               /\ NameRank(api_opps.list[i].token) < NameRank(api_opps.list[j].token)

\* C12: every opportunity in the map has strategy long_spot_short_perp when
\* its perp price is above its spot price and short_spot_long_perp when it is
\* below.
C12_StrategyFollowsSign ==
    \A t \in Tokens :
        arbitrage_opportunities[t].present =>
            /\ arbitrage_opportunities[t].perp_price > arbitrage_opportunities[t].spot_price
                 => arbitrage_opportunities[t].strategy = "long_spot_short_perp"
            /\ arbitrage_opportunities[t].perp_price < arbitrage_opportunities[t].spot_price
                 => arbitrage_opportunities[t].strategy = "short_spot_long_perp"

\* C12 witness: a finished cycle emitted one opportunity of each strategy.
C12_Witness ==
    /\ refresh_pc = "idle"
    /\ \E t, u \in Tokens :
        /\ arbitrage_opportunities[t].present
        /\ arbitrage_opportunities[t].perp_price > arbitrage_opportunities[t].spot_price
        /\ arbitrage_opportunities[t].strategy = "long_spot_short_perp"
        /\ arbitrage_opportunities[u].present
        /\ arbitrage_opportunities[u].perp_price < arbitrage_opportunities[u].spot_price
        /\ arbitrage_opportunities[u].strategy = "short_spot_long_perp"

\* C13: when a refresh cycle ends, however its sources fared, the map holds
\* exactly the opportunities derived from the price map as it then stands,
\* and every entry in it was computed by this cycle (the cycle went through
\* _calculate_arbitrage_opportunities and _store_historical_data), none is
\* left over from an earlier one.
C13_RecomputedEveryCycle ==
    [][(refresh_pc /= "idle" /\ refresh_pc' = "idle") =>
        \A t \in Tokens :
            /\ arbitrage_opportunities'[t] = calculate_opportunity(price_data'[t])
            /\ arbitrage_opportunities'[t].present => refresh_pc = "store"]_vars

\* C14: no spread computation divides by a non-positive price: whenever one
\* of the spread computations (detector, analytics, top of book, Monte Carlo
\* simulation, spread decay) performs a division the divisor is positive, and
\* it ends with a value or with a zero spread, never with an error.
C14_NoDivisionByNonPositive ==
    /\ spread_calc.div.divided => spread_calc.div.divisor > 0
    /\ spread_calc.outcome /= "error"

\* C20: no two templates of execution_templates have the same name.
C20_TemplateNamesUnique ==
    \A i, j \in 1..Len(execution_templates) :
        i /= j => execution_templates[i].name /= execution_templates[j].name

\* C15: the secondary sources are asked only if the primary quoted fewer than
\* half of the tracked tokens or failed, and only for tokens the primary did
\* not quote; no quote the primary gave in a cycle is replaced in that cycle.
C15_SecondaryOnlyForMissing ==
    spot_call.called =>
        LET jo == spot_call.primary
            r == spot_call.result
        IN /\ r.asked /= <<>> =>
                  \/ jo.raised
                  \/ Cardinality(KeysOf(jo.prices)) < NumSpotTokens \div 2
           /\ \A i \in 1..Len(r.asked) : r.asked[i] \cap KeysOf(jo.prices) = {}
           /\ ~r.abort =>
                  \A t \in KeysOf(jo.prices) : spot_quotes[t] = jo.prices[t]

\* C16: when the sources gave fewer than three quotes, every tracked token has
\* a spot quote at the end of the cycle, the sources' quotes kept and all
\* others marked as demo; when they gave three or more, no demo quote is
\* added.
C16_DemoSupplementBelowThree ==
    spot_call.called =>
        LET real == spot_call.result.fetched
        IN IF Cardinality(KeysOf(real)) < min_tokens
           THEN \A t \in SpotTokens :
                    /\ spot_quotes[t].present
                    /\ real[t].present => spot_quotes[t] = real[t]
                    /\ ~real[t].present => spot_quotes[t].source = "demo"
           ELSE \A t \in KeysOf(real) : spot_quotes[t] = real[t]

\* C17: every synthetic quote carries a source tag marking it synthetic: the
\* spot quotes _generate_demo_spot_prices makes are tagged "demo", and so is
\* every perp leg of the price map while streaming was never enabled (the
\* REST path supplies no token then, so each perp leg is a generated one).
C17_SyntheticQuotesTagged ==
    /\ \A t \in Tokens : generate_demo_spot_prices[t].source = "demo"
    /\ ~ws_enabled =>
           \A t \in Tokens :
               (price_data[t].present /\ price_data[t].hyperliquid.present) =>
                   price_data[t].hyperliquid.source = "demo"

\* C18: update_all_prices never lets an exception out, whichever sources
\* fail, and whenever it is not running the refresh does not hold data_lock.
C18_NoExceptionLockReleased ==
    /\ refresh_pc /= "propagated"
    /\ refresh_pc = "idle" => data_lock /= "refresh"

\* C18 witness: the first cycle has ended in the outer except clause (the
\* perp side ran, nothing was merged) and the lock is free.
C18_Witness ==
    /\ refresh_pc = "idle"
    /\ hl_ret.seq = 1
    /\ \A t \in Tokens : ~price_data[t].present
    /\ data_lock = "free"

\* C19: for every token and each of its legs, the timestamp of the record
\* after a refresh cycle is strictly greater than after the previous cycle:
\* when a cycle's merge runs later than the previous merge, every record that
\* was there has a greater timestamp afterwards.
C19_TimestampsStrictlyIncrease ==
    [][(refresh_pc = "spot" /\ refresh_pc' = "calc") =>
        \A t \in Tokens :
            (price_data[t].present /\ now > price_data[t].last_updated) =>
                /\ price_data[t].hyperliquid.present =>
                       price_data'[t].hyperliquid.timestamp
                           > price_data[t].hyperliquid.timestamp
                /\ price_data[t].jupiter.present =>
                       price_data'[t].jupiter.timestamp
                           > price_data[t].jupiter.timestamp]_vars

\* C21: delete_execution_template(name) removes the templates of that name
\* and leaves the others as they were, and it reports success exactly when a
\* template of that name existed (the list being unchanged otherwise).
C21_DeleteReportsNotFound ==
    [][(template_ret'.op = "delete" /\ template_ret'.seq /= template_ret.seq) =>
        LET keep(t) == t.name /= template_ret'.name
        IN /\ execution_templates' = SelectSeq(execution_templates, keep)
           /\ template_ret'.success <=>
                  \E i \in 1..Len(execution_templates) :
                      execution_templates[i].name = template_ret'.name]_vars

\* A Monte Carlo call whose price and funding arguments are all given and
\* usable, without a template.
McPlainCall ==
    /\ mc_ret.kind /= "none"
    /\ mc_ret.req.template = NoTemplate
    /\ mc_ret.req.jupiter_price.given /\ mc_ret.req.jupiter_price.v > 0
    /\ mc_ret.req.hyperliquid_price.given
    /\ mc_ret.req.funding_rate.given

\* A Monte Carlo call with only a token, a notional and a sample count.
McNoOverrides ==
    /\ mc_ret.kind /= "none"
    /\ ~mc_ret.req.jupiter_price.given
    /\ ~mc_ret.req.hyperliquid_price.given
    /\ ~mc_ret.req.funding_rate.given

\* C22: for every requested sample count n, also n <= 0 and n > 5000, the
\* simulation runs and reports n_simulations = min(max(n, 1), 5000).
C22_SampleCountClamped ==
    (McPlainCall /\ mc_ret.req.notional_usd > 0) =>
        /\ mc_ret.kind = "simulation_stats"
        /\ mc_ret.n_simulations =
               Min(IF mc_ret.req.n_sims > 1 THEN mc_ret.req.n_sims ELSE 1, max_sims)

\* C23: a call with a non-positive notional returns a result with an error
\* field and no simulation_stats.
C23_NonPositiveNotionalIsError ==
    (McPlainCall /\ mc_ret.req.n_sims >= 1 /\ mc_ret.req.notional_usd <= 0) =>
        mc_ret.kind = "error"

\* C24: a call with only token, positive notional and n_sims, with no
\* aggregator attached or for a token the aggregator has no data for, returns
\* simulation_stats with n_simulations equal to the requested count.
C24_DemoPricesWithoutAggregator ==
    (/\ McNoOverrides
     /\ mc_ret.req.template = NoTemplate
     /\ mc_ret.req.notional_usd > 0
     /\ mc_ret.req.n_sims \in 1..max_sims) =>
        /\ mc_ret.kind = "simulation_stats"
        /\ mc_ret.n_simulations = mc_ret.req.n_sims

\* C25: a call naming an existing execution template returns simulation_stats
\* with the requested count and the template's name in input_parameters.
C25_TemplateCallReturnsStats ==
    (/\ mc_ret.kind /= "none"
     /\ mc_ret.req.template = "SOL Scalping"
     /\ mc_ret.req.jupiter_price.given /\ mc_ret.req.jupiter_price.v > 0
     /\ mc_ret.req.hyperliquid_price.given
     /\ mc_ret.req.funding_rate.given
     /\ mc_ret.req.notional_usd > 0
     /\ mc_ret.req.n_sims \in 1..max_sims) =>
        /\ mc_ret.kind = "simulation_stats"
        /\ mc_ret.n_simulations = mc_ret.req.n_sims
        /\ mc_ret.template = mc_ret.req.template

\* C26: a call without overrides, made while the attached aggregator holds a
\* spot and a mark price for the token, uses those two prices.
C26_UsesAggregatorPrices ==
    [][(/\ mc_ret' /= mc_ret
        /\ bridge_arbitrage_service = "attached"
        /\ mc_ret'.req.token \in Tokens
        /\ LET d == price_data[mc_ret'.req.token]
           IN /\ d.present
              /\ d.jupiter.present /\ d.jupiter.price > 0
              /\ d.hyperliquid.present /\ d.hyperliquid.price > 0) =>
        LET d == price_data[mc_ret'.req.token]
        IN /\ mc_ret'.kind = "simulation_stats"
           /\ mc_ret'.jupiter_price = d.jupiter.price
           /\ mc_ret'.hyperliquid_price = d.hyperliquid.price]_vars

\* C27: after any sequence of simulate_bridge_execution calls the history holds
\* at most 100 results, and they are the most recent successfully completed
\* simulations, in the order of the calls.
C27_HistoryHoldsLastHundred ==
    /\ Len(historical_simulations) <= history_limit
    /\ Len(historical_simulations) = Min(sims_completed, history_limit)
    /\ \A i \in 1..Len(historical_simulations) :
           historical_simulations[i] = sims_completed - Len(historical_simulations) + i

\* C27 witness: more than 100 simulations have completed, the oldest were
\* dropped, and the last call failed without touching the history.
C27_Witness ==
    /\ sims_completed > history_limit
    /\ Len(historical_simulations) = history_limit
    /\ historical_simulations[1] = sims_completed - history_limit + 1
    /\ spread_calc.site = "spread_decay"
    /\ spread_calc.outcome = "error"

\* A call of estimate_slippage_by_notional without a token, with a positive
\* notional, a positive volume and the default k or a positive one.
PlainSlippageCall(ret) ==
    /\ ret.kind = "value"
    /\ ret.req.token = NoToken
    /\ ret.req.notional_usd > 0
    /\ ret.req.adv_usd > 0
    /\ k_effective(ret.req) > 0

\* C28: for a fixed ADV > 0 and a fixed k the estimate is strictly increasing
\* in the notional: of two calls that differ only in a larger positive
\* notional, the second returns a strictly larger slippage.
C28_StrictlyIncreasingInNotional ==
    [][(/\ PlainSlippageCall(slippage_ret)
        /\ PlainSlippageCall(slippage_ret')
        /\ slippage_ret'.req.adv_usd = slippage_ret.req.adv_usd
        /\ slippage_ret'.req.k = slippage_ret.req.k
        /\ slippage_ret.req.notional_usd < slippage_ret'.req.notional_usd)
       => slippage_ret.result < slippage_ret'.result]_vars

C30_EqualsSquareRootFormula ==
    PlainSlippageCall(slippage_ret) =>
        Abs(slippage_ret.result - slippage_pct(slippage_ret.req)) < places_4

\* The prices of the levels a depth walk took something from.
ConsumedPrices(r) == {r.levels[i].price : i \in {j \in 1..Len(r.levels) : r.fills[j] > 0}}

\* C31: in estimate_execution_price_from_depth the per-level filled sizes sum
\* to at most the requested size, the levels are consumed best price first
\* (a level is touched only when the better ones are used up), and the average
\* execution price lies between the lowest and the highest consumed price; the
\* book [(101,50),(102,50)] bought for 100 gives 101.5.
C31_DepthWalkWithinLevels ==
    depth_ret.kind = "value" =>
        LET r == depth_ret.result
            n == Len(r.levels)
        IN  /\ SumSeq(r.fills) <= depth_ret.req.size_token
            /\ \A i, j \in 1..n :
                   i < j => /\ (depth_ret.req.side = "buy"
                                   => r.levels[i].price <= r.levels[j].price)
                            /\ (depth_ret.req.side = "sell"
                                   => r.levels[i].price >= r.levels[j].price)
                            /\ (r.fills[j] > 0 => r.fills[i] = r.levels[i].size)
            /\ r.total_executed > 0 =>
                   /\ \E p \in ConsumedPrices(r) : p * 100 <= r.executed_price
                   /\ \E p \in ConsumedPrices(r) : r.executed_price <= p * 100
            /\ (/\ depth_ret.req.depth = <<[price |-> 101, size |-> 50],
                                          [price |-> 102, size |-> 50]>>
                /\ depth_ret.req.side = "buy"
                /\ depth_ret.req.size_token = 100) => r.executed_price = 10150

\* C31 witness: a book given worst price first was bought into; the better level
\* was used up and the worse one only in part.
C31_Witness ==
    /\ depth_ret.kind = "value"
    /\ depth_ret.req.side = "buy"
    /\ Len(depth_ret.req.depth) = 2
    /\ depth_ret.req.depth[1].price > depth_ret.req.depth[2].price
    /\ depth_ret.result.levels[1] = depth_ret.req.depth[2]
    /\ depth_ret.result.fills[1] = depth_ret.result.levels[1].size
    /\ depth_ret.result.fills[2] > 0
    /\ depth_ret.result.fills[2] < depth_ret.result.levels[2].size

\* C32: the slippage estimate_execution_price_from_depth returns never exceeds
\* 0.20, the partial-fill penalty included.
C32_DepthSlippageCapped ==
    depth_ret.kind = "value" => depth_ret.result.slippage_pct <= depth_slippage_cap

\* C33: whatever inputs are available, the recommended value of
\* estimate_combined_slippage is strictly greater than 0 and at most the
\* largest bound configured for an estimator (the 20% of the depth walk; the
\* square-root model and the power law are bounded by less), and it is 0.01
\* when no estimator could run.
C33_RecommendedWithinBounds ==
    combined_ret.kind = "value" =>
        LET r == combined_ret.result
        IN  /\ r.recommended > 0
            /\ r.recommended <= depth_slippage_cap * 100
            /\ (/\ ~r.results.sqrt_model.ran
                /\ ~r.results.almgren_chriss.ran
                /\ ~r.results.depth_based.ran) => r.recommended = recommended_fallback

\* C34: CacheService.get and CacheService.set never raise: when the Redis call
\* fails during the operation, get answers not-found and set answers False.
C34_RemoteFaultNeverRaises ==
    cache_ret.fault =>
        \/ cache_ret.op = "get" /\ cache_ret.val = PyNone
        \/ cache_ret.op = "set_False"

\* The slices of live_data other than prices
OtherSlices(d) == <<d.funding_rates, d.open_interest, d.volumes>>

\* C35: processing one stream message changes only its channel's slice of
\* live_data (and last_update): trades only volumes, meta only funding_rates and
\* open_interest, allMids and l1Book only prices; within a coin's prices entry
\* an l1Book message keeps the mark price and an allMids message keeps the
\* best bid and best ask that the other channel wrote.
C35_MessageChangesOnlyItsSlice ==
    [][/\ WsTradesStep =>
            /\ live_data'.prices = live_data.prices
            /\ live_data'.funding_rates = live_data.funding_rates
            /\ live_data'.open_interest = live_data.open_interest
       /\ WsMetaStep =>
            /\ live_data'.prices = live_data.prices
            /\ live_data'.volumes = live_data.volumes
       /\ WsL1BookStep =>
            /\ OtherSlices(live_data') = OtherSlices(live_data)
            /\ \A c \in Coins :
                  /\ live_data'.prices[c].mark_price = live_data.prices[c].mark_price
                  /\ live_data'.prices[c].source = live_data.prices[c].source
       /\ WsAllMidsStep =>
            /\ OtherSlices(live_data') = OtherSlices(live_data)
            /\ \A c \in Coins :
                  live_data.prices[c].has_book =>
                      /\ live_data'.prices[c].has_book
                      /\ live_data'.prices[c].best_bid = live_data.prices[c].best_bid
                      /\ live_data'.prices[c].best_ask = live_data.prices[c].best_ask
      ]_vars

\* C36: once enable_websocket_streaming has started the background listener,
\* the listener thread eventually has running = True and is attempting a
\* connection to the primary (mainnet) endpoint.
C36_ListenerThreadConnects ==
    (bg_thread = "started") ~> (running /\ ws_pc = "connecting" /\ ~use_testnet_fallback)

\* C37: the listener never goes from the end of a connection (a failed attempt,
\* an error close or a clean close) straight to the next connection attempt:
\* when connect() is back at its while condition without having slept, the
\* condition is false and no attempt follows. Every sleep lasts at least
\* base_delay.
C37_WaitsBeforeReconnecting ==
    [][/\ (ws_pc \in {"connecting", "listening"} /\ ws_pc' = "loop") =>
              ~(running' /\ reconnect_attempts' < max_reconnect_attempts)
       /\ (ws_pc' = "sleeping" /\ ws_pc /= "sleeping") =>
              (sleep_log' /= <<>> /\ sleep_log'[Len(sleep_log')] >= base_delay)
      ]_vars

\* The threads that are alive and have run a _polling_loop iteration since
\* the latest start()
LoopsIterating ==
    {i \in ThreadIds : is_alive(i) /\ polling_threads[i].epoch = Len(polling_threads)}

\* C38: after any sequence of start() and stop() calls at most one thread is
\* executing _polling_loop iterations; a start() after a stop() never leaves
\* two loops running.
C38_AtMostOnePollingLoop == Cardinality(LoopsIterating) <= 1

\* C39: a refresh cycle (update_all_prices) does not modify
\* HyperliquidService.ws_data, so no synthetic perp quote is ever in it;
\* ws_data is written only by _handle_ws_data, on an allMids message.
C39_RefreshLeavesWsData ==
    [][/\ Refresh => ws_data' = ws_data
       /\ ws_data' /= ws_data => WsAllMidsStep
      ]_vars

\* The delay the k-th consecutive failure is to be followed by:
\* min(retry_backoff_base * 2^(k-1), retry_backoff_max)
ExpectedBackoff(k) ==
    IF k > 7 THEN retry_backoff_max
    ELSE Min(retry_backoff_base * 2 ^ (k - 1), retry_backoff_max)

\* C40: right after the k-th consecutive failed fetch of a service the retry
\* time is the failure time plus min(retry_backoff_base * 2^(k-1),
\* retry_backoff_max) and the call has returned None; a cache-missing fetch
\* made before the retry time does not invoke the fetch function and returns
\* None; a successful fetch clears the retry state (so the next failure is
\* the first again).
C40_BackoffFollowsFailures ==
    /\ (fetch_ret.invoked /\ fetch_ret.result /= "data") =>
            /\ fetch_ret.op = "None"
            /\ retry_state.present
            /\ retry_state.failures = fetch_ret.streak
            /\ retry_state.next_retry_in = ExpectedBackoff(fetch_ret.streak)
    /\ (fetch_ret.op /= "none" /\ ~fetch_ret.hit /\ fetch_ret.wait_before > 0) =>
            /\ ~fetch_ret.invoked
            /\ fetch_ret.op = "None"
    /\ (fetch_ret.invoked /\ fetch_ret.result = "data") =>
            /\ ~retry_state.present
            /\ fetch_ret.streak = 0

====
